---- MODULE Spec2Model ----
(***************************************************************************)
(* State machine of the Video Frame Extractor application (src/App.tsx,    *)
(* src/components/ImagePreviewModal.tsx, src/components/VideoPreview.tsx). *)
(*                                                                         *)
(* The variables are the React state of App, the local state of the        *)
(* mounted ImagePreviewModal and VideoPreview, and the asynchronous        *)
(* handlers that are suspended at an await.  A suspended handler keeps the *)
(* values of the render it was created in (its closure): they are stored   *)
(* with it and used when it resumes, as the JavaScript does.               *)
(*                                                                         *)
(* Sequences are 1-based here and 0-based in the source: index k of the    *)
(* model is index k-1 of the code.  The value 0 stands for undefined/null  *)
(* in a number-valued field.                                               *)
(***************************************************************************)
EXTENDS Integers, Sequences, FiniteSets, TLC

\* ------------------------------------------------------------------ bounds
\* Number of distinct image contents (data URLs) the video can yield.
NumSrcs == 2
\* Number of single-frame handlers (describe / translate) suspended at once.
MaxPending == 1

\* ------------------------------------------------------- program constants
SESSION_DESCRIBE_LIMIT == 5

Srcs == 1..NumSrcs

\* The text returned by the description service for an image, and the text
\* returned by the translation service for a prompt.
Description(src) == src
Translation(prompt) == 0 - prompt

\* ------------------------------------------------------------------- state
VARIABLES
  videoSrc,            \* App: 0 = null, 1 = an object URL
  aspectRatio,         \* App: 0 = null, 1 = a captured ratio
  duration,            \* VideoPreview: 0, or 1 = a positive duration
  originalFrames,      \* App: sequence of OriginalFrame
  regeneratedFrames,   \* App: sequence of RegeneratedFrame | null
  describeCount,       \* App
  selectedFrames,      \* App: Set<number>, kept in insertion order
  selectedRegenFrames, \* App
  activeSelection,     \* App: "original" | "regenerated" | "null"
  isLoading,           \* App
  previewImages,       \* App: [open, items, startIndex, isEditable]
  currentIndex,        \* ImagePreviewModal
  isDescribing,        \* ImagePreviewModal
  isTranslating,       \* ImagePreviewModal
  pending,             \* suspended handleDescribeImage / handleTranslatePrompt
  batch,                \* the suspended handleBatchDescribe, if any
  alertMsg,            \* the alert() raised by the last step, "none" if none
  lastBatch,           \* the batch that ended in the last step, if one did
  descriptionsReturned,\* describeImage calls that have resolved so far
  crashed              \* a render threw: React unmounted the application

\* extractFrames (src/App.tsx): the arguments of the call, the promise it
\* returned, the locals of its executor and of its loadedmetadata listener,
\* and the video element it created.
VARIABLES
  call,                \* the arguments and the canvas context, NoCall if none
  promise,             \* "none" | "pending" | "resolved" | "rejected"
  element,             \* the video element: "none" | "loading" | "loaded" | "error"
  currentTime,         \* loadedmetadata listener: let currentTime, in ticks
  acceptedFrameCount,  \* loadedmetadata listener: let acceptedFrameCount
  extractedFrames,     \* executor: const frames, the data URLs pushed
  lastAcceptedFrameData, \* executor: ImageData | null, by the picture's name
  seeking,             \* the instant video.currentTime was set to, NoSeek if
                       \* no seek is in flight
  seeks,               \* the instants of the seeks issued so far
  progress,            \* the onProgress reports made so far
  accepted,            \* the pictures of the frames pushed so far
  judged,              \* the number of runs of the seeked listener so far
  settleCalls          \* the number of calls of resolve and reject so far

appVars == <<videoSrc, aspectRatio, duration, originalFrames, regeneratedFrames,
          describeCount, selectedFrames, selectedRegenFrames, activeSelection,
          isLoading, previewImages, currentIndex, isDescribing, isTranslating,
          pending, batch, alertMsg, lastBatch, descriptionsReturned,
          crashed>>

samplerVars == <<call, promise, element, currentTime, acceptedFrameCount,
                 extractedFrames, lastAcceptedFrameData, seeking, seeks,
                 progress, accepted, judged, settleCalls>>

\* regenerateImage and editImage (src/services/geminiService.ts): the call in
\* flight with the locals it has computed so far, and what the promise it
\* returned settled with.
VARIABLES
  request,             \* the call and its locals, NoRequest if none
  reply                \* the settled promise, NoReply while there is none

serviceVars == <<request, reply>>

vars == <<appVars, samplerVars, serviceVars>>

videoVars == <<videoSrc, aspectRatio, duration>>
modalVars == <<currentIndex, isDescribing, isTranslating>>
selVars == <<selectedFrames, selectedRegenFrames, activeSelection>>

\* ----------------------------------------------------------------- helpers
OriginalFrame(s, p, t) == [src |-> s, prompt |-> p, translatedPrompt |-> t]

\* What reading past the end of an array gives: undefined.
Undefined == OriginalFrame(0, 0, 0)

\* An entry of regeneratedFrames that holds no frame: null.
Hole == OriginalFrame(0, 0, 0)

At(frames, k) == IF k \in 1..Len(frames) THEN frames[k] ELSE Undefined

Range(s) == {s[k] : k \in 1..Len(s)}

\* Array.prototype.filter, by index.
RECURSIVE FilterIdx(_, _, _)
FilterIdx(s, keep, k) ==
  IF k > Len(s) THEN <<>>
  ELSE (IF k \in keep THEN <<s[k]>> ELSE <<>>) \o FilterIdx(s, keep, k + 1)

\* Array.prototype.findIndex on src; 0 when absent (-1 in the code).
FindIndex(frames, s) ==
  IF \E k \in 1..Len(frames) : frames[k].src = s
  THEN CHOOSE k \in 1..Len(frames) :
         frames[k].src = s /\ \A j \in 1..(k - 1) : frames[j].src # s
  ELSE 0

\* Array.from(set).sort((a, b) => a - b)
RECURSIVE SortedSeq(_)
SortedSeq(S) ==
  IF S = {} THEN <<>>
  ELSE LET m == CHOOSE x \in S : \A y \in S : x <= y
       IN <<m>> \o SortedSeq(S \ {m})

ClosedPreview == [open |-> FALSE, items |-> <<>>, startIndex |-> 0,
                  isEditable |-> FALSE]

\* handleBatchDescribe's locals (indices is indicesToProcess), its place pc,
\* and what it has done so far: calls issued, delays taken, and the number
\* of undescribed selected frames it started from.
IdleBatch == [pc |-> "idle", indices |-> <<>>, i |-> 0, newOriginals |-> <<>>,
              descriptionsMade |-> 0, calls |-> 0, delays |-> 0,
              candidates |-> 0]

NoBatch == [ended |-> FALSE, size |-> 0, candidates |-> 0, calls |-> 0,
            delays |-> 0, descriptionsMade |-> 0]

\* What a step shows: the alert it raised, and no batch ended in it.
Report(msg) == alertMsg' = msg /\ lastBatch' = NoBatch

\* The modal is a full-screen layer above the page (fixed inset-0 z-50) and
\* the Loader is shown while isLoading: the page under them takes no click.
PageEnabled == ~crashed /\ ~previewImages.open /\ ~isLoading

\* ImagePreviewModal renders items[currentIndex].src: undefined throws.
RenderThrows(preview, idx) ==
  preview.open /\ At(preview.items, idx).src = 0

\* null, for an ImageData: no pixels.
Null == <<>>

\* null, for lastAcceptedFrameData: the name of no picture.
NoFrame == "null"

NoCall == [made |-> FALSE]

NoRequest == [operation |-> "none"]
NoReply == [settled |-> "none"]

NoSeek == 0 - 1

\* extractFrames is exported and App never calls it: while the application
\* runs, no extraction exists.
SamplerIdle ==
  /\ call = NoCall
  /\ promise = "none"
  /\ element = "none"
  /\ currentTime = 0
  /\ acceptedFrameCount = 0
  /\ extractedFrames = <<>>
  /\ lastAcceptedFrameData = NoFrame
  /\ seeking = NoSeek
  /\ seeks = <<>>
  /\ progress = <<>>
  /\ accepted = <<>>
  /\ judged = 0
  /\ settleCalls = 0

\* regenerateImage is called only by the loop of handleRegenerate, which is
\* commented out, and editImage only by handleEditImage, which the preview
\* offers for derived frames only, and there are none: while the application
\* runs, neither has been called.
ServiceIdle ==
  /\ request = NoRequest
  /\ reply = NoReply

\* --------------------------------------------------------------------- Init
Init ==
  /\ SamplerIdle
  /\ ServiceIdle
  /\ videoSrc = 0
  /\ aspectRatio = 0
  /\ duration = 0
  /\ originalFrames = <<>>
  /\ regeneratedFrames = <<>>
  /\ describeCount = 0
  /\ selectedFrames = <<>>
  /\ selectedRegenFrames = <<>>
  /\ activeSelection = "null"
  /\ isLoading = FALSE
  /\ previewImages = ClosedPreview
  /\ currentIndex = 0
  /\ isDescribing = FALSE
  /\ isTranslating = FALSE
  /\ pending = <<>>
  /\ batch = IdleBatch
  /\ alertMsg = "none"
  /\ lastBatch = NoBatch
  /\ descriptionsReturned = 0
  /\ crashed = FALSE

\* ------------------------------------------------------------ video, store
\* Mutant of handleVideoUpload: a new video also starts a new quota.
handleVideoUpload_ResetsQuota ==
  /\ PageEnabled
  /\ videoSrc' = 1
  /\ aspectRatio' = 0
  /\ originalFrames' = <<>>
  /\ regeneratedFrames' = <<>>
  /\ selectedFrames' = <<>>
  /\ selectedRegenFrames' = <<>>
  /\ activeSelection' = "null"
  /\ describeCount' = 0
  /\ Report("none")
  /\ UNCHANGED <<duration, descriptionsReturned,
                 isLoading, previewImages, modalVars,
                 pending, batch, crashed>>

handleVideoUpload ==
  /\ PageEnabled
  /\ videoSrc' = 1
  /\ aspectRatio' = 0
  /\ originalFrames' = <<>>
  /\ regeneratedFrames' = <<>>
  /\ selectedFrames' = <<>>
  /\ selectedRegenFrames' = <<>>
  /\ activeSelection' = "null"
  /\ Report("none")
  /\ UNCHANGED <<duration, descriptionsReturned,
                 describeCount, isLoading, previewImages, modalVars,
                 pending, batch, crashed>>

\* VideoPreview's loadedmetadata listener: setDuration, onVideoLoaded.
handleLoadedMetadata ==
  /\ ~crashed
  /\ videoSrc = 1
  /\ aspectRatio = 0
  /\ aspectRatio' = 1
  /\ duration' = 1
  /\ Report("none")
  /\ UNCHANGED <<videoSrc, descriptionsReturned,
                 originalFrames, regeneratedFrames, describeCount,
                 selVars, isLoading, previewImages, modalVars, pending, batch,
                 crashed>>

\* Mutant of handleManualFrameExtract: the frame is appended without the
\* test prevFrames.some(f => f.src === frameData).
handleManualFrameExtract_NoDedup(frameData) ==
  /\ PageEnabled
  /\ videoSrc = 1
  /\ duration # 0
  /\ originalFrames' = Append(originalFrames, OriginalFrame(frameData, 0, 0))
  /\ Len(originalFrames) < NumSrcs + 1
  /\ Report("none")
  /\ UNCHANGED <<videoVars, descriptionsReturned,
                 regeneratedFrames, describeCount, selVars,
                 isLoading, previewImages, modalVars, pending, batch, crashed>>

handleManualFrameExtract(frameData) ==
  /\ PageEnabled
  /\ videoSrc = 1
  /\ duration # 0
  /\ originalFrames' =
       IF \E k \in 1..Len(originalFrames) : originalFrames[k].src = frameData
       THEN originalFrames
       ELSE Append(originalFrames, OriginalFrame(frameData, 0, 0))
  /\ Report("none")
  /\ UNCHANGED <<videoVars, descriptionsReturned,
                 regeneratedFrames, describeCount, selVars,
                 isLoading, previewImages, modalVars, pending, batch, crashed>>

\* Mutant of handleFrameSelect: the active selection is not set to null when
\* the last frame is deselected.
handleFrameSelect_KeepsActive(index) ==
  /\ PageEnabled
  /\ index \in 1..Len(originalFrames)
  /\ selectedRegenFrames' = <<>>
  /\ selectedFrames' =
       IF index \in Range(selectedFrames)
       THEN SelectSeq(selectedFrames, LAMBDA x : x # index)
       ELSE Append(selectedFrames, index)
  /\ activeSelection' = "original"
  /\ Report("none")
  /\ UNCHANGED <<videoVars, descriptionsReturned,
                 originalFrames, regeneratedFrames, describeCount,
                 isLoading, previewImages, modalVars, pending, batch, crashed>>

handleFrameSelect(index) ==
  /\ PageEnabled
  /\ index \in 1..Len(originalFrames)
  /\ selectedRegenFrames' = <<>>
  /\ selectedFrames' =
       IF index \in Range(selectedFrames)
       THEN SelectSeq(selectedFrames, LAMBDA x : x # index)
       ELSE Append(selectedFrames, index)
  /\ activeSelection' = IF selectedFrames' = <<>> THEN "null" ELSE "original"
  /\ Report("none")
  /\ UNCHANGED <<videoVars, descriptionsReturned,
                 originalFrames, regeneratedFrames, describeCount,
                 isLoading, previewImages, modalVars, pending, batch, crashed>>

handleSelectAllOriginal ==
  /\ PageEnabled
  /\ Len(originalFrames) > 0
  /\ selectedRegenFrames' = <<>>
  /\ IF Len(selectedFrames) = Len(originalFrames)
     THEN /\ selectedFrames' = <<>>
          /\ activeSelection' = "null"
     ELSE /\ selectedFrames' = [k \in 1..Len(originalFrames) |-> k]
          /\ activeSelection' = "original"
  /\ Report("none")
  /\ UNCHANGED <<videoVars, descriptionsReturned,
                 originalFrames, regeneratedFrames, describeCount,
                 isLoading, previewImages, modalVars, pending, batch, crashed>>

\* The action bar of the originals is rendered and its buttons are enabled.
ActionBarEnabled ==
  PageEnabled /\ activeSelection = "original" /\ Len(selectedFrames) > 0

handleDeleteSelected ==
  /\ ActionBarEnabled
  /\ LET keep == (1..Len(originalFrames)) \ Range(selectedFrames)
     IN /\ originalFrames' = FilterIdx(originalFrames, keep, 1)
        /\ regeneratedFrames' =
             IF Len(regeneratedFrames) > 0
             THEN FilterIdx(regeneratedFrames,
                            (1..Len(regeneratedFrames)) \ Range(selectedFrames), 1)
             ELSE <<>>
  /\ selectedFrames' = <<>>
  /\ activeSelection' = "null"
  /\ Report("none")
  /\ UNCHANGED <<videoVars, descriptionsReturned,
                 describeCount, selectedRegenFrames, isLoading,
                 previewImages, modalVars, pending, batch, crashed>>

\* ------------------------------------------------------------ preview modal
\* Mounting ImagePreviewModal: useState(startIndex), useState(false).
handleFramePreview(src) ==
  /\ PageEnabled
  /\ FindIndex(originalFrames, src) # 0
  /\ previewImages' = [open |-> TRUE, items |-> originalFrames,
                       startIndex |-> FindIndex(originalFrames, src),
                       isEditable |-> FALSE]
  /\ currentIndex' = FindIndex(originalFrames, src)
  /\ isDescribing' = FALSE
  /\ isTranslating' = FALSE
  /\ Report("none")
  /\ UNCHANGED <<videoVars, descriptionsReturned,
                 originalFrames, regeneratedFrames, describeCount,
                 selVars, isLoading, pending, batch, crashed>>

handlePreviewSelected ==
  /\ ActionBarEnabled
  /\ LET sorted == SortedSeq(Range(selectedFrames))
         items == [k \in 1..Len(sorted) |-> At(originalFrames, sorted[k])]
     IN /\ previewImages' = [open |-> TRUE, items |-> items, startIndex |-> 1,
                             isEditable |-> FALSE]
        /\ currentIndex' = 1
        /\ crashed' = (items[1].src = 0)
  /\ isDescribing' = FALSE
  /\ isTranslating' = FALSE
  /\ Report("none")
  /\ UNCHANGED <<videoVars, descriptionsReturned,
                 originalFrames, regeneratedFrames, describeCount,
                 selVars, isLoading, pending, batch>>

\* No request of this modal is running: its buttons are not under the
\* submission overlay, and goToNext / goToPrev do not return early.
ModalIdle ==
  ~crashed /\ previewImages.open /\ ~isDescribing /\ ~isTranslating

goToNext ==
  /\ ModalIdle
  /\ Len(previewImages.items) > 1
  /\ currentIndex' = (currentIndex % Len(previewImages.items)) + 1
  /\ crashed' = RenderThrows(previewImages, currentIndex')
  /\ Report("none")
  /\ UNCHANGED <<videoVars, descriptionsReturned,
                 originalFrames, regeneratedFrames, describeCount,
                 selVars, isLoading, previewImages, isDescribing,
                 isTranslating, pending, batch>>

goToPrev ==
  /\ ModalIdle
  /\ Len(previewImages.items) > 1
  /\ currentIndex' =
       ((currentIndex - 2 + Len(previewImages.items))
          % Len(previewImages.items)) + 1
  /\ crashed' = RenderThrows(previewImages, currentIndex')
  /\ Report("none")
  /\ UNCHANGED <<videoVars, descriptionsReturned,
                 originalFrames, regeneratedFrames, describeCount,
                 selVars, isLoading, previewImages, isDescribing,
                 isTranslating, pending, batch>>

\* Escape (handleKeyDown, isEditing false), the close button or a click on
\* the backdrop: onClose.  The modal unmounts; the handlers it started go on.
Detach(ops) == [k \in 1..Len(ops) |-> [ops[k] EXCEPT !.attached = FALSE]]

handleClosePreview ==
  /\ ~crashed
  /\ previewImages.open
  /\ previewImages' = ClosedPreview
  /\ currentIndex' = 0
  /\ isDescribing' = FALSE
  /\ isTranslating' = FALSE
  /\ pending' = Detach(pending)
  /\ Report("none")
  /\ UNCHANGED <<videoVars, descriptionsReturned,
                 originalFrames, regeneratedFrames, describeCount,
                 selVars, isLoading, batch, crashed>>

RemoveAt(s, n) == [k \in 1..(Len(s) - 1) |-> IF k < n THEN s[k] ELSE s[k + 1]]

\* setPreviewImages(p) from a resumed handler, then the finally block of the
\* modal's click handler (flag: "isDescribing" or "isTranslating").  A closed
\* preview that becomes open mounts a new modal; an open one keeps its
\* instance and its currentIndex.  The setter of an unmounted modal is void.
ShowPreview(p, flag, attached) ==
  /\ previewImages' = p
  /\ currentIndex' =
       IF previewImages.open THEN currentIndex ELSE p.startIndex
  /\ isDescribing' =
       IF ~previewImages.open \/ (attached /\ flag = "isDescribing")
       THEN FALSE ELSE isDescribing
  /\ isTranslating' =
       IF ~previewImages.open \/ (attached /\ flag = "isTranslating")
       THEN FALSE ELSE isTranslating
  /\ crashed' = RenderThrows(p, currentIndex')

\* The finally block of handleDescribeClick / handleTranslateClick alone.
ModalFinally(flag, attached) ==
  /\ isDescribing' =
       IF attached /\ flag = "isDescribing" THEN FALSE ELSE isDescribing
  /\ isTranslating' =
       IF attached /\ flag = "isTranslating" THEN FALSE ELSE isTranslating
  /\ UNCHANGED <<previewImages, currentIndex, crashed>>

\* items.map(item => item.src === ...) throws on an undefined item.
MapThrows(items) == \E k \in 1..Len(items) : items[k].src = 0

\* ------------------------------------------------- single-frame describe
CurrentItem == At(previewImages.items, currentIndex)

\* handleDescribeImage applied to the frames of the render it was created in.
DescribedFrames(frames, currentSrc) ==
  [k \in 1..Len(frames) |->
     IF frames[k].src = currentSrc
     THEN [frames[k] EXCEPT !.prompt = Description(currentSrc),
                            !.translatedPrompt = 0]
     ELSE frames[k]]

\* The Describe button of the modal (rendered for an item without prompt,
\* disabled while describing or when no description is left), then
\* handleDescribeImage up to its await.
handleDescribeClick ==
  /\ ModalIdle
  /\ ~previewImages.isEditable
  /\ CurrentItem.prompt = 0
  /\ SESSION_DESCRIBE_LIMIT - describeCount > 0
  /\ Len(pending) < MaxPending
  /\ IF SESSION_DESCRIBE_LIMIT - describeCount <= 0
     THEN /\ Report("limit_reached")
          /\ UNCHANGED <<pending, isDescribing>>
     ELSE /\ pending' = Append(pending,
               [kind |-> "describe", src |-> CurrentItem.src,
                frameIndex |-> 0, text |-> 0,
                frames |-> originalFrames, preview |-> previewImages,
                attached |-> TRUE])
          /\ isDescribing' = TRUE
          /\ Report("none")
  /\ UNCHANGED <<videoVars, descriptionsReturned,
                 originalFrames, regeneratedFrames, describeCount,
                 selVars, isLoading, previewImages, currentIndex,
                 isTranslating, batch, crashed>>

\* describeImage resolved: the rest of handleDescribeImage's try block.
DescribeResolved(n) ==
  /\ ~crashed
  /\ n \in 1..Len(pending)
  /\ pending[n].kind = "describe"
  /\ LET op == pending[n]
     IN /\ originalFrames' = DescribedFrames(op.frames, op.src)
        /\ describeCount' = describeCount + 1
        /\ IF MapThrows(op.preview.items)
           THEN /\ Report("describe_failed")
                /\ ModalFinally("isDescribing", op.attached)
           ELSE /\ Report("none")
                /\ ShowPreview(
                     [op.preview EXCEPT
                        !.items = DescribedFrames(op.preview.items, op.src)],
                     "isDescribing", op.attached)
  /\ pending' = RemoveAt(pending, n)
  /\ descriptionsReturned' = descriptionsReturned + 1
  /\ UNCHANGED <<videoVars, regeneratedFrames, selVars, isLoading, batch>>

\* Mutant of DescribeRejected: the counter is charged in the catch block too.
DescribeRejected_Charges(n) ==
  /\ ~crashed
  /\ n \in 1..Len(pending)
  /\ pending[n].kind = "describe"
  /\ Report("describe_failed")
  /\ describeCount' = describeCount + 1
  /\ ModalFinally("isDescribing", pending[n].attached)
  /\ pending' = RemoveAt(pending, n)
  /\ UNCHANGED <<videoVars, descriptionsReturned, originalFrames,
                 regeneratedFrames, selVars, isLoading, batch>>

\* describeImage rejected: the catch block alerts and rethrows.
DescribeRejected(n) ==
  /\ ~crashed
  /\ n \in 1..Len(pending)
  /\ pending[n].kind = "describe"
  /\ Report("describe_failed")
  /\ ModalFinally("isDescribing", pending[n].attached)
  /\ pending' = RemoveAt(pending, n)
  /\ UNCHANGED <<videoVars, descriptionsReturned,
                 originalFrames, regeneratedFrames, describeCount,
                 selVars, isLoading, batch>>

\* ----------------------------------------------------------------- translate
\* Mutant of handleTranslateClick: a frame without prompt is not refused.
handleTranslateClick_NoRefusal ==
  /\ ModalIdle
  /\ ~previewImages.isEditable
  /\ CurrentItem.prompt # 0
  /\ CurrentItem.translatedPrompt = 0
  /\ Len(pending) < MaxPending
  /\ LET frameIndex == FindIndex(originalFrames, CurrentItem.src)
     IN IF frameIndex = 0
        THEN /\ Report("translate_not_found")
             /\ UNCHANGED <<pending, isTranslating>>
        ELSE /\ pending' = Append(pending,
                  [kind |-> "translate", src |-> CurrentItem.src,
                   frameIndex |-> frameIndex,
                   text |-> originalFrames[frameIndex].prompt,
                   frames |-> originalFrames, preview |-> previewImages,
                   attached |-> TRUE])
             /\ isTranslating' = TRUE
             /\ Report("none")
  /\ UNCHANGED <<videoVars, descriptionsReturned,
                 originalFrames, regeneratedFrames, describeCount,
                 selVars, isLoading, previewImages, currentIndex,
                 isDescribing, batch, crashed>>

\* The Translate button (rendered for an item with a prompt and without a
\* translation), then handleTranslatePrompt up to its await.
handleTranslateClick ==
  /\ ModalIdle
  /\ ~previewImages.isEditable
  /\ CurrentItem.prompt # 0
  /\ CurrentItem.translatedPrompt = 0
  /\ Len(pending) < MaxPending
  /\ LET frameIndex == FindIndex(originalFrames, CurrentItem.src)
     IN IF frameIndex = 0
        THEN /\ Report("translate_not_found")
             /\ UNCHANGED <<pending, isTranslating>>
        ELSE IF originalFrames[frameIndex].prompt = 0
        THEN /\ Report("translate_no_prompt")
             /\ UNCHANGED <<pending, isTranslating>>
        ELSE /\ pending' = Append(pending,
                  [kind |-> "translate", src |-> CurrentItem.src,
                   frameIndex |-> frameIndex,
                   text |-> originalFrames[frameIndex].prompt,
                   frames |-> originalFrames, preview |-> previewImages,
                   attached |-> TRUE])
             /\ isTranslating' = TRUE
             /\ Report("none")
  /\ UNCHANGED <<videoVars, descriptionsReturned,
                 originalFrames, regeneratedFrames, describeCount,
                 selVars, isLoading, previewImages, currentIndex,
                 isDescribing, batch, crashed>>

TranslatedItems(items, currentSrc, translation) ==
  [k \in 1..Len(items) |->
     IF items[k].src = currentSrc
     THEN [items[k] EXCEPT !.translatedPrompt = translation]
     ELSE items[k]]

TranslateResolved(n) ==
  /\ ~crashed
  /\ n \in 1..Len(pending)
  /\ pending[n].kind = "translate"
  /\ LET op == pending[n]
         translation == Translation(op.text)
     IN /\ originalFrames' =
             [op.frames EXCEPT ![op.frameIndex].translatedPrompt = translation]
        /\ IF MapThrows(op.preview.items)
           THEN /\ Report("translate_failed")
                /\ ModalFinally("isTranslating", op.attached)
           ELSE /\ Report("none")
                /\ ShowPreview(
                     [op.preview EXCEPT
                        !.items = TranslatedItems(op.preview.items, op.src,
                                                  translation)],
                     "isTranslating", op.attached)
  /\ pending' = RemoveAt(pending, n)
  /\ UNCHANGED <<videoVars, descriptionsReturned,
                 regeneratedFrames, describeCount, selVars,
                 isLoading, batch>>

\* Mutant of TranslateRejected: the catch block installs the frames of the
\* handler's closure before it alerts.
TranslateRejected_WritesFrames(n) ==
  /\ ~crashed
  /\ n \in 1..Len(pending)
  /\ pending[n].kind = "translate"
  /\ Report("translate_failed")
  /\ originalFrames' = pending[n].frames
  /\ ModalFinally("isTranslating", pending[n].attached)
  /\ pending' = RemoveAt(pending, n)
  /\ UNCHANGED <<videoVars, descriptionsReturned, regeneratedFrames,
                 describeCount, selVars, isLoading, batch>>

TranslateRejected(n) ==
  /\ ~crashed
  /\ n \in 1..Len(pending)
  /\ pending[n].kind = "translate"
  /\ Report("translate_failed")
  /\ ModalFinally("isTranslating", pending[n].attached)
  /\ pending' = RemoveAt(pending, n)
  /\ UNCHANGED <<videoVars, descriptionsReturned,
                 originalFrames, regeneratedFrames, describeCount,
                 selVars, isLoading, batch>>

\* ------------------------------------------------------------ batch describe
\* Mutant of BatchFinally: the counter is charged with the targets of the
\* batch, not with the descriptions made.
BatchFinally_ChargeTargets(b, msg) ==
  /\ describeCount' = describeCount + Len(b.indices)
  /\ isLoading' = FALSE
  /\ selectedFrames' = <<>>
  /\ activeSelection' = "null"
  /\ batch' = IdleBatch
  /\ alertMsg' = msg
  /\ lastBatch' = [ended |-> TRUE, size |-> Len(b.indices),
                   candidates |-> b.candidates, calls |-> b.calls,
                   delays |-> b.delays,
                   descriptionsMade |-> b.descriptionsMade]

\* Mutant of BatchFinally: the selection is not cleared.
BatchFinally_KeepsSelection(b, msg) ==
  /\ describeCount' = describeCount + b.descriptionsMade
  /\ isLoading' = FALSE
  /\ UNCHANGED <<selectedFrames, activeSelection>>
  /\ batch' = IdleBatch
  /\ alertMsg' = msg
  /\ lastBatch' = [ended |-> TRUE, size |-> Len(b.indices),
                   candidates |-> b.candidates, calls |-> b.calls,
                   delays |-> b.delays,
                   descriptionsMade |-> b.descriptionsMade]

\* The finally block of handleBatchDescribe.
BatchFinally(b, msg) ==
  /\ describeCount' = describeCount + b.descriptionsMade
  /\ isLoading' = FALSE
  /\ selectedFrames' = <<>>
  /\ activeSelection' = "null"
  /\ batch' = IdleBatch
  /\ alertMsg' = msg
  /\ lastBatch' = [ended |-> TRUE, size |-> Len(b.indices),
                   candidates |-> b.candidates, calls |-> b.calls,
                   delays |-> b.delays,
                   descriptionsMade |-> b.descriptionsMade]

\* indicesToProcess: the selected frames without prompt, in the order of
\* Array.from(selectedFrames), cut to the remaining descriptions.
\* Mutant of Undescribed: the filter is missing.
Undescribed_AllSelected(frames, selected) == selected

Undescribed(frames, selected) ==
  SelectSeq(selected, LAMBDA k : frames[k].prompt = 0)

\* Mutant of IndicesToProcess: the slice is missing.
IndicesToProcess_NoSlice(candidates, remainingDescriptions) == candidates

IndicesToProcess(candidates, remainingDescriptions) ==
  IF Len(candidates) > remainingDescriptions
  THEN SubSeq(candidates, 1, remainingDescriptions)
  ELSE candidates

\* handleBatchDescribe up to its first await.
handleBatchDescribe ==
  /\ ActionBarEnabled
  /\ LET remainingDescriptions == SESSION_DESCRIBE_LIMIT - describeCount
     IN IF remainingDescriptions <= 0
        THEN /\ Report("limit_reached")
             /\ UNCHANGED <<isLoading, batch>>
        ELSE IF \E k \in Range(selectedFrames) : k > Len(originalFrames)
        THEN \* originalFrames[index].prompt throws: the handler ends there
             /\ isLoading' = TRUE
             /\ Report("none")
             /\ UNCHANGED batch
        ELSE LET candidates == Undescribed(originalFrames, selectedFrames)
                 indices == IndicesToProcess(candidates, remainingDescriptions)
             IN /\ isLoading' = TRUE
                /\ IF Len(candidates) = 0
                   THEN /\ batch' = [IdleBatch EXCEPT !.pc = "notice"]
                        /\ Report("none")
                   ELSE /\ batch' = [pc |-> "call", indices |-> indices,
                                     i |-> 1, newOriginals |-> originalFrames,
                                     descriptionsMade |-> 0, calls |-> 1,
                                     delays |-> 0,
                                     candidates |-> Len(candidates)]
                        /\ Report(IF Len(candidates) > remainingDescriptions
                                  THEN "batch_shortened" ELSE "none")
  /\ UNCHANGED <<videoVars, descriptionsReturned,
                 originalFrames, regeneratedFrames, describeCount,
                 selVars, previewImages, modalVars, pending, crashed>>

\* "All selected frames are already described.": the 1500 ms are over.
BatchNoticeDone ==
  /\ ~crashed
  /\ batch.pc = "notice"
  /\ isLoading' = FALSE
  /\ selectedFrames' = <<>>
  /\ activeSelection' = "null"
  /\ batch' = IdleBatch
  /\ Report("none")
  /\ UNCHANGED <<videoVars, descriptionsReturned,
                 originalFrames, regeneratedFrames, describeCount,
                 selectedRegenFrames, previewImages, modalVars, pending,
                 crashed>>

\* Mutant of BatchDescribeResolved: the delay is taken after the last call
\* too (i < length instead of i < length - 1).
BatchDescribeResolved_DelayAfterLast ==
  /\ ~crashed
  /\ batch.pc = "call"
  /\ batch.i <= Len(batch.indices)
  /\ LET frameIndex == batch.indices[batch.i]
         frame == batch.newOriginals[frameIndex]
         newOriginals ==
           [batch.newOriginals EXCEPT
              ![frameIndex] = [frame EXCEPT !.prompt = Description(frame.src),
                                            !.translatedPrompt = 0]]
         b == [batch EXCEPT !.newOriginals = newOriginals,
                            !.descriptionsMade = @ + 1]
     IN /\ originalFrames' = newOriginals
        /\ descriptionsReturned' = descriptionsReturned + 1
        /\ batch' = [b EXCEPT !.pc = "delay", !.delays = @ + 1]
        /\ Report("none")
  /\ UNCHANGED <<videoVars, regeneratedFrames, describeCount, selVars,
                 isLoading, previewImages, modalVars, pending, crashed>>

\* Mutant of BatchDescribeResolved: the frames are published once, after the
\* last call (a single final swap), not after each call.
BatchDescribeResolved_FinalSwap ==
  /\ ~crashed
  /\ batch.pc = "call"
  /\ LET frameIndex == batch.indices[batch.i]
         frame == batch.newOriginals[frameIndex]
         newOriginals ==
           [batch.newOriginals EXCEPT
              ![frameIndex] = [frame EXCEPT !.prompt = Description(frame.src),
                                            !.translatedPrompt = 0]]
         b == [batch EXCEPT !.newOriginals = newOriginals,
                            !.descriptionsMade = @ + 1]
     IN /\ descriptionsReturned' = descriptionsReturned + 1
        /\ IF batch.i < Len(batch.indices)
           THEN /\ batch' = [b EXCEPT !.pc = "delay", !.delays = @ + 1]
                /\ Report("none")
                /\ UNCHANGED <<describeCount, isLoading, selectedFrames,
                               activeSelection, originalFrames>>
           ELSE /\ originalFrames' = newOriginals
                /\ BatchFinally(b, "none")
  /\ UNCHANGED <<videoVars, regeneratedFrames, selectedRegenFrames,
                 previewImages, modalVars, pending, crashed>>

\* describeImage resolved for indicesToProcess[i]: the rest of the loop body,
\* then the delay, or the end of the loop and the finally block.
BatchDescribeResolved ==
  /\ ~crashed
  /\ batch.pc = "call"
  /\ LET frameIndex == batch.indices[batch.i]
         frame == batch.newOriginals[frameIndex]
         newOriginals ==
           [batch.newOriginals EXCEPT
              ![frameIndex] = [frame EXCEPT !.prompt = Description(frame.src),
                                            !.translatedPrompt = 0]]
         b == [batch EXCEPT !.newOriginals = newOriginals,
                            !.descriptionsMade = @ + 1]
     IN /\ originalFrames' = newOriginals
        /\ descriptionsReturned' = descriptionsReturned + 1
        /\ IF batch.i < Len(batch.indices)
           THEN /\ batch' = [b EXCEPT !.pc = "delay", !.delays = @ + 1]
                /\ Report("none")
                /\ UNCHANGED <<describeCount, isLoading, selectedFrames,
                               activeSelection>>
           ELSE BatchFinally(b, "none")
  /\ UNCHANGED <<videoVars, regeneratedFrames, selectedRegenFrames,
                 previewImages, modalVars, pending, crashed>>

\* API_CALL_DELAY_MS are over: i++, and describeImage is called again.
BatchDelayDone ==
  /\ ~crashed
  /\ batch.pc = "delay"
  /\ batch' = [batch EXCEPT !.pc = "call", !.i = @ + 1, !.calls = @ + 1]
  /\ Report("none")
  /\ UNCHANGED <<videoVars, descriptionsReturned,
                 originalFrames, regeneratedFrames, describeCount,
                 selVars, isLoading, previewImages, modalVars, pending,
                 crashed>>

\* Mutant of BatchDescribeRejected: the try block is inside the loop, so a
\* failed call is reported and the loop goes on with the next target.
BatchDescribeRejected_GoesOn ==
  /\ ~crashed
  /\ batch.pc = "call"
  /\ IF batch.i < Len(batch.indices)
     THEN /\ batch' = [batch EXCEPT !.pc = "delay", !.delays = @ + 1]
          /\ Report("batch_failed")
          /\ UNCHANGED <<describeCount, isLoading, selectedFrames,
                         activeSelection>>
     ELSE BatchFinally(batch, "batch_failed")
  /\ UNCHANGED <<videoVars, descriptionsReturned, originalFrames,
                 regeneratedFrames, selectedRegenFrames, previewImages,
                 modalVars, pending, crashed>>

\* describeImage rejected: the catch block alerts, then the finally block.
BatchDescribeRejected ==
  /\ ~crashed
  /\ batch.pc = "call"
  /\ BatchFinally(batch, "batch_failed")
  /\ UNCHANGED <<videoVars, descriptionsReturned,
                 originalFrames, regeneratedFrames,
                 selectedRegenFrames, previewImages, modalVars, pending,
                 crashed>>

\* ---------------------------------------------------------------- regenerate
\* Mutant of handleRegenerate: the return after the "coming soon" alert is
\* missing, and the handler goes on to setIsLoading(true) and to the padding
\* of the derived collection.
handleRegenerate_NoReturn(indicesToProcess) ==
  /\ IF Len(originalFrames) = 0 \/ aspectRatio = 0
     THEN /\ Report("upload_first")
          /\ UNCHANGED <<isLoading, regeneratedFrames>>
     ELSE IF Len(indicesToProcess) = 0
     THEN /\ Report("none")
          /\ UNCHANGED <<isLoading, regeneratedFrames>>
     ELSE /\ Report("coming_soon")
          /\ isLoading' = TRUE
          /\ regeneratedFrames' = [k \in 1..Len(originalFrames) |-> 0]
  /\ UNCHANGED <<videoVars, descriptionsReturned, originalFrames,
                 describeCount, selVars, previewImages, modalVars, pending,
                 batch, crashed>>

\* Mutant of handleRegenerate: the return after the "coming soon" alert is
\* missing up to the padding of the derived collection, which is published.
handleRegenerate_Pads(indicesToProcess) ==
  /\ IF Len(originalFrames) = 0 \/ aspectRatio = 0
     THEN /\ Report("upload_first")
          /\ UNCHANGED regeneratedFrames
     ELSE IF Len(indicesToProcess) = 0
     THEN /\ Report("none")
          /\ UNCHANGED regeneratedFrames
     ELSE /\ Report("coming_soon")
          /\ regeneratedFrames' = [k \in 1..Len(originalFrames) |-> Hole]
  /\ UNCHANGED <<videoVars, descriptionsReturned, originalFrames,
                 describeCount, selVars, isLoading, previewImages, modalVars,
                 pending, batch, crashed>>

\* handleRegenerate: both exits are before any state is set.
handleRegenerate(indicesToProcess) ==
  /\ IF Len(originalFrames) = 0 \/ aspectRatio = 0
     THEN Report("upload_first")
     ELSE IF Len(indicesToProcess) = 0
     THEN Report("none")
     ELSE Report("coming_soon")
  /\ UNCHANGED <<videoVars, descriptionsReturned,
                 originalFrames, regeneratedFrames, describeCount,
                 selVars, isLoading, previewImages, modalVars, pending, batch,
                 crashed>>

\* onRegenerate={() => handleRegenerate(Array.from(selectedFrames))}
onRegenerate ==
  /\ ActionBarEnabled
  /\ handleRegenerate(selectedFrames)

\* ------------------------------------------------------------------ download
\* handleDownloadSelectedOriginal up to zip.generateAsync; reading .src of a
\* frame that is not there throws inside the try block.
handleDownloadSelectedOriginal ==
  /\ ActionBarEnabled
  /\ IF \E k \in Range(selectedFrames) : k > Len(originalFrames)
     THEN /\ Report("zip_failed")
          /\ selectedFrames' = <<>>
          /\ activeSelection' = "null"
          /\ UNCHANGED <<isLoading, batch>>
     ELSE /\ isLoading' = TRUE
          /\ batch' = [IdleBatch EXCEPT !.pc = "zip"]
          /\ Report("none")
          /\ UNCHANGED <<selectedFrames, activeSelection>>
  /\ UNCHANGED <<videoVars, descriptionsReturned,
                 originalFrames, regeneratedFrames, describeCount,
                 selectedRegenFrames, previewImages, modalVars, pending,
                 crashed>>

\* zip.generateAsync settled (ok, or not: the catch block alerts), finally.
DownloadSettled(ok) ==
  /\ ~crashed
  /\ batch.pc = "zip"
  /\ isLoading' = FALSE
  /\ selectedFrames' = <<>>
  /\ activeSelection' = "null"
  /\ batch' = IdleBatch
  /\ Report(IF ok THEN "none" ELSE "zip_failed")
  /\ UNCHANGED <<videoVars, descriptionsReturned,
                 originalFrames, regeneratedFrames, describeCount,
                 selectedRegenFrames, previewImages, modalVars, pending,
                 crashed>>

\* ------------------------------------------------------------ derived gallery
\* The image regenerateImage returns for an original, and the frame
\* handleRegenerate's loop makes of it.
RegeneratedSrc(src) == NumSrcs + src
RegeneratedFrame(src, prompt) == OriginalFrame(src, prompt, 0)

\* validRegenIndices, and validRegenCount = its length.
ValidRegenIndices ==
  SelectSeq([k \in 1..Len(regeneratedFrames) |-> k],
            LAMBDA k : regeneratedFrames[k].src # 0)

\* The gallery of the derived frames is rendered (validRegenCount > 0).
RegenGalleryShown == PageEnabled /\ Len(ValidRegenIndices) > 0

\* Mutant of handleRegenFrameSelect: setSelectedFrames(new Set()) is missing.
handleRegenFrameSelect_KeepsOriginal(index) ==
  /\ RegenGalleryShown
  /\ index \in 1..Len(regeneratedFrames)
  /\ selectedRegenFrames' =
       IF index \in Range(selectedRegenFrames)
       THEN SelectSeq(selectedRegenFrames, LAMBDA x : x # index)
       ELSE Append(selectedRegenFrames, index)
  /\ activeSelection' =
       IF selectedRegenFrames' = <<>> THEN "null" ELSE "regenerated"
  /\ Report("none")
  /\ UNCHANGED <<videoVars, descriptionsReturned, originalFrames,
                 regeneratedFrames, describeCount, selectedFrames, isLoading,
                 previewImages, modalVars, pending, batch, crashed>>

\* A click on a tile of the derived gallery, which shows one tile for each
\* position of regeneratedFrames.
handleRegenFrameSelect(index) ==
  /\ RegenGalleryShown
  /\ index \in 1..Len(regeneratedFrames)
  /\ selectedFrames' = <<>>
  /\ selectedRegenFrames' =
       IF index \in Range(selectedRegenFrames)
       THEN SelectSeq(selectedRegenFrames, LAMBDA x : x # index)
       ELSE Append(selectedRegenFrames, index)
  /\ activeSelection' =
       IF selectedRegenFrames' = <<>> THEN "null" ELSE "regenerated"
  /\ Report("none")
  /\ UNCHANGED <<videoVars, descriptionsReturned, originalFrames,
                 regeneratedFrames, describeCount, isLoading,
                 previewImages, modalVars, pending, batch, crashed>>

handleSelectAllRegenerated ==
  /\ RegenGalleryShown
  /\ selectedFrames' = <<>>
  /\ IF Len(selectedRegenFrames) = Len(ValidRegenIndices)
     THEN /\ selectedRegenFrames' = <<>>
          /\ activeSelection' = "null"
     ELSE /\ selectedRegenFrames' = ValidRegenIndices
          /\ activeSelection' = "regenerated"
  /\ Report("none")
  /\ UNCHANGED <<videoVars, descriptionsReturned, originalFrames,
                 regeneratedFrames, describeCount, isLoading,
                 previewImages, modalVars, pending, batch, crashed>>

\* The action bar of the derived frames is rendered and its buttons are
\* enabled.
RegenActionBarEnabled ==
  /\ PageEnabled
  /\ activeSelection = "regenerated"
  /\ Len(selectedRegenFrames) > 0

\* newRegenerated[index] = null for each selected index; an index past the
\* end extends the array.
ClearedFrames(frames, selected) ==
  LET top == CHOOSE m \in Range(selected) \cup {Len(frames)} :
               \A x \in Range(selected) \cup {Len(frames)} : x <= m
  IN [k \in 1..top |->
        IF k \in Range(selected) \/ k > Len(frames) THEN Hole ELSE frames[k]]

\* Mutant of handleDeleteRegenerated: the selected entries are removed, as
\* handleDeleteSelected removes originals, and the collection is compacted.
handleDeleteRegenerated_Compacts ==
  /\ RegenActionBarEnabled
  /\ regeneratedFrames' =
       FilterIdx(regeneratedFrames,
                 (1..Len(regeneratedFrames)) \ Range(selectedRegenFrames), 1)
  /\ selectedRegenFrames' = <<>>
  /\ activeSelection' = "null"
  /\ Report("none")
  /\ UNCHANGED <<videoVars, descriptionsReturned, originalFrames,
                 describeCount, selectedFrames, isLoading, previewImages,
                 modalVars, pending, batch, crashed>>

handleDeleteRegenerated ==
  /\ RegenActionBarEnabled
  /\ regeneratedFrames' = ClearedFrames(regeneratedFrames, selectedRegenFrames)
  /\ selectedRegenFrames' = <<>>
  /\ activeSelection' = "null"
  /\ Report("none")
  /\ UNCHANGED <<videoVars, descriptionsReturned, originalFrames,
                 describeCount, selectedFrames, isLoading, previewImages,
                 modalVars, pending, batch, crashed>>

\* onRegenerateAgain={() => handleRegenerate(Array.from(selectedRegenFrames))}
onRegenerateAgain ==
  /\ RegenActionBarEnabled
  /\ handleRegenerate(selectedRegenFrames)

\* ---------------------------------------------------------------------- Next
\* No handler of App calls extractFrames: each of them leaves the sampler's
\* variables as they are.
Next ==
  \/ handleVideoUpload /\ UNCHANGED <<samplerVars, serviceVars>>
  \/ handleLoadedMetadata /\ UNCHANGED <<samplerVars, serviceVars>>
  \/ \E frameData \in Srcs : handleManualFrameExtract(frameData) /\ UNCHANGED <<samplerVars, serviceVars>>
  \/ \E index \in 1..NumSrcs : handleFrameSelect(index) /\ UNCHANGED <<samplerVars, serviceVars>>
  \/ handleSelectAllOriginal /\ UNCHANGED <<samplerVars, serviceVars>>
  \/ handleDeleteSelected /\ UNCHANGED <<samplerVars, serviceVars>>
  \/ \E src \in Srcs : handleFramePreview(src) /\ UNCHANGED <<samplerVars, serviceVars>>
  \/ handlePreviewSelected /\ UNCHANGED <<samplerVars, serviceVars>>
  \/ goToNext /\ UNCHANGED <<samplerVars, serviceVars>>
  \/ goToPrev /\ UNCHANGED <<samplerVars, serviceVars>>
  \/ handleClosePreview /\ UNCHANGED <<samplerVars, serviceVars>>
  \/ handleDescribeClick /\ UNCHANGED <<samplerVars, serviceVars>>
  \/ \E n \in 1..MaxPending : DescribeResolved(n) /\ UNCHANGED <<samplerVars, serviceVars>>
  \/ \E n \in 1..MaxPending : DescribeRejected(n) /\ UNCHANGED <<samplerVars, serviceVars>>
  \/ handleTranslateClick /\ UNCHANGED <<samplerVars, serviceVars>>
  \/ \E n \in 1..MaxPending : TranslateResolved(n) /\ UNCHANGED <<samplerVars, serviceVars>>
  \/ \E n \in 1..MaxPending : TranslateRejected(n) /\ UNCHANGED <<samplerVars, serviceVars>>
  \/ handleBatchDescribe /\ UNCHANGED <<samplerVars, serviceVars>>
  \/ BatchNoticeDone /\ UNCHANGED <<samplerVars, serviceVars>>
  \/ BatchDescribeResolved /\ UNCHANGED <<samplerVars, serviceVars>>
  \/ BatchDelayDone /\ UNCHANGED <<samplerVars, serviceVars>>
  \/ BatchDescribeRejected /\ UNCHANGED <<samplerVars, serviceVars>>
  \/ onRegenerate /\ UNCHANGED <<samplerVars, serviceVars>>
  \/ handleDownloadSelectedOriginal /\ UNCHANGED <<samplerVars, serviceVars>>
  \/ \E ok \in BOOLEAN : DownloadSettled(ok) /\ UNCHANGED <<samplerVars, serviceVars>>

Spec == Init /\ [][Next]_vars

\* ------------------------------------------------ the store, derived included
\* handleRegenerate's loop is commented out, so under Spec the derived
\* collection stays empty and the handlers of the derived gallery never run.
\* SpecStore runs the handlers of the frame store and of the two selections
\* as functions of the store: it starts from every store of NumSrcs
\* originals whose derived collection is empty or holds the regenerated
\* frame of each original, with a loaded video and nothing selected.
StoreOriginals ==
  {[k \in 1..NumSrcs |-> OriginalFrame(f[k], 0, 0)] : f \in Permutations(Srcs)}

StoreDerived(originals) ==
  {<<>>,
   [k \in 1..Len(originals) |->
      RegeneratedFrame(RegeneratedSrc(originals[k].src), originals[k].src)]}

InitStore ==
  /\ SamplerIdle
  /\ ServiceIdle
  /\ videoSrc = 1
  /\ aspectRatio = 1
  /\ duration = 1
  /\ originalFrames \in StoreOriginals
  /\ regeneratedFrames \in StoreDerived(originalFrames)
  /\ describeCount = 0
  /\ selectedFrames = <<>>
  /\ selectedRegenFrames = <<>>
  /\ activeSelection = "null"
  /\ isLoading = FALSE
  /\ previewImages = ClosedPreview
  /\ currentIndex = 0
  /\ isDescribing = FALSE
  /\ isTranslating = FALSE
  /\ pending = <<>>
  /\ batch = IdleBatch
  /\ alertMsg = "none"
  /\ lastBatch = NoBatch
  /\ descriptionsReturned = 0
  /\ crashed = FALSE

NextStore ==
  \/ handleVideoUpload /\ UNCHANGED <<samplerVars, serviceVars>>
  \/ handleLoadedMetadata /\ UNCHANGED <<samplerVars, serviceVars>>
  \/ \E frameData \in Srcs : handleManualFrameExtract(frameData) /\ UNCHANGED <<samplerVars, serviceVars>>
  \/ \E index \in 1..NumSrcs : handleFrameSelect(index) /\ UNCHANGED <<samplerVars, serviceVars>>
  \/ \E index \in 1..NumSrcs : handleRegenFrameSelect(index) /\ UNCHANGED <<samplerVars, serviceVars>>
  \/ handleSelectAllOriginal /\ UNCHANGED <<samplerVars, serviceVars>>
  \/ handleSelectAllRegenerated /\ UNCHANGED <<samplerVars, serviceVars>>
  \/ handleDeleteSelected /\ UNCHANGED <<samplerVars, serviceVars>>
  \/ handleDeleteRegenerated /\ UNCHANGED <<samplerVars, serviceVars>>
  \/ onRegenerate /\ UNCHANGED <<samplerVars, serviceVars>>
  \/ onRegenerateAgain /\ UNCHANGED <<samplerVars, serviceVars>>

SpecStore == InitStore /\ [][NextStore]_vars

\* -------------------------------------------------------------- the sampler
\* extractFrames as a function of its arguments.  Time is counted in ticks of
\* 1/TicksPerSecond second, so that the sampling rates of Rates have an
\* interval of a whole number of ticks (and their multiples are exact in the
\* double arithmetic of the source).
MaxDuration == 2
MaxFramesLimit == 2

TicksPerSecond == 2
Rates == {1, 2}

\* const interval = 1 / framesPerSecond
Interval(framesPerSecond) == TicksPerSecond \div framesPerSecond

\* const sampleRate = 10
sampleRate == 10

\* The pictures a video shows: a checkerboard, the checkerboard with a
\* lighter first pixel, a coloured checkerboard, and solid black.
Kinds == {"sharp", "near", "other", "black"}

\* The red, green and blue of the pixel in column x, row y.
Pixel(kind, x, y) ==
  LET level == IF (x + y) % 2 = 0 THEN 200 ELSE 40
  IN CASE kind = "sharp" -> <<level, level, level>>
       [] kind = "near" -> IF x = 0 /\ y = 0 THEN <<208, 208, 208>>
                           ELSE <<level, level, level>>
       [] kind = "other" -> <<240 - level, level, 120>>
       [] kind = "black" -> <<0, 0, 0>>

\* context.getImageData(0, 0, width, height) after the picture was drawn:
\* the pixels in row order (pixel k is at byte offset 4 * (k - 1)).
ImageData(kind, width, height) ==
  [k \in 1..(width * height) |->
     Pixel(kind, (k - 1) % width, (k - 1) \div width)]

RECURSIVE Sum(_)
Sum(values) ==
  IF values = <<>> THEN 0 ELSE Head(values) + Sum(Tail(values))

Abs(x) == IF x < 0 THEN 0 - x ELSE x

\* gray[i / 4] = 0.299 * r + 0.587 * g + 0.114 * b, stored in a
\* Uint8ClampedArray: rounded to the nearest integer, a tie to the even one.
Gray(pixel) ==
  LET q == 299 * pixel[1] + 587 * pixel[2] + 114 * pixel[3]
      floor == q \div 1000
      rest == q % 1000
  IN IF rest > 500 \/ (rest = 500 /\ floor % 2 = 1) THEN floor + 1 ELSE floor

\* The responses of the 3x3 Laplacian kernel at the interior pixels, in row
\* order.
Laplacian(data, width, height) ==
  LET gray(x, y) == Gray(data[y * width + x + 1])
      columns == width - 2
      count == IF width > 2 /\ height > 2 THEN columns * (height - 2) ELSE 0
  IN [k \in 1..count |->
        LET x == 1 + ((k - 1) % columns)
            y == 1 + ((k - 1) \div columns)
        IN (gray(x, y - 1) + gray(x, y + 1) + gray(x - 1, y) + gray(x + 1, y))
           - 4 * gray(x, y)]

\* The variance of the responses is below the threshold t: with n responses
\* v of sum S, (sum of (v - S/n)^2) / n < t, all multiplied by n^3.
VarianceBelow(laplacianValues, t) ==
  LET n == Len(laplacianValues)
      total == Sum(laplacianValues)
  IN Sum([k \in 1..n |-> (n * laplacianValues[k] - total)
                          * (n * laplacianValues[k] - total)]) < t * n * n * n

\* Mutant of isFrameBlurry: no frame is blurry.
isFrameBlurry_NeverBlurry(data, width, height, blurThreshold) == FALSE

isFrameBlurry(data, width, height, blurThreshold) ==
  LET laplacianValues == Laplacian(data, width, height)
  IN IF Len(laplacianValues) = 0 THEN FALSE
     ELSE VarianceBelow(laplacianValues, blurThreshold)

\* The pixels the loop visits: i = 0, 4 * sampleRate, ... below numPixels * 4.
SampledPixels(numPixels) == {k \in 1..numPixels : (k - 1) % sampleRate = 0}

\* diff: the absolute differences of red, green and blue, summed over the
\* sampled pixels.
SampledDiff(current, previous) ==
  LET ks == SortedSeq(SampledPixels(Len(current)))
  IN Sum([j \in 1..Len(ks) |->
            Abs(current[ks[j]][1] - previous[ks[j]][1])
            + Abs(current[ks[j]][2] - previous[ks[j]][2])
            + Abs(current[ks[j]][3] - previous[ks[j]][3])])

\* avgDiff < similarityThreshold with avgDiff = diff / (totalSamples * 3) and
\* totalSamples = numPixels / sampleRate, multiplied by 3 * numPixels.
areFramesSimilar(current, previousFrameData, width, height, similarityThreshold) ==
  IF previousFrameData = Null THEN FALSE
  ELSE SampledDiff(current, previousFrameData) * sampleRate
         < similarityThreshold * 3 * (width * height)

\* canvas.toDataURL('image/jpeg'): the encoding keeps the pixels up to the
\* low bits of each channel.
toDataURL(data) ==
  [k \in 1..Len(data) |-> <<data[k][1] \div 8, data[k][2] \div 8,
                            data[k][3] \div 8>>]

\* The thresholds a call is made with.
Options ==
  {[blurThreshold |-> b, similarityThreshold |-> t] :
     b \in {0, 50}, t \in {0, 5}}

\* The frame sizes of the videos, width and height.
Sizes == {<<5, 4>>, <<4, 3>>, <<2, 2>>}

\* The pixel buffers a video of each size can show, by the picture's name.
Pictures ==
  [size \in Sizes |->
     [kind \in Kinds |-> ImageData(kind, size[1], size[2])]]

\* The ImageData that lastAcceptedFrameData refers to.
Pixels(size, name) == IF name = NoFrame THEN Null ELSE Pictures[size][name]

\* The two tests of the seeked listener and the data URL it pushes, computed
\* once for every picture on the canvas, every last accepted frame and every
\* pair of thresholds.
Verdicts ==
  [size \in Sizes, kind \in Kinds, previous \in Kinds \cup {NoFrame},
   options \in Options |->
     [isBlurry |-> isFrameBlurry(Pictures[size][kind], size[1], size[2],
                                 options.blurThreshold),
      isSimilar |-> areFramesSimilar(Pictures[size][kind],
                                     Pixels(size, previous), size[1], size[2],
                                     options.similarityThreshold),
      dataURL |-> toDataURL(Pictures[size][kind])]]

\* The video files: their size, their duration in ticks, the picture shown
\* at each tick, and where decoding fails: nowhere (NoSeek), at load (0) or
\* in the n-th seek (n).
VideoFiles ==
  UNION {{[width |-> size[1], height |-> size[2], duration |-> d,
           content |-> c, failsAt |-> f] :
            size \in Sizes, c \in [1..(d + 1) -> Kinds],
            f \in {NoSeek, 0, 2}} :
         d \in 0..MaxDuration}

\* Mutant of Drawn: once a frame has been judged, the canvas shows the
\* picture of the tick before the instant sought.
Drawn_Lags(t) ==
  LET v == call.videoFile
      at == IF t > v.duration THEN v.duration ELSE t
  IN v.content[IF judged > 0 /\ at > 0 THEN at ELSE at + 1]

\* The picture on the canvas after context.drawImage(video, ...) with the
\* video at instant t: past the end the decoder shows the last picture.
Drawn(t) ==
  LET v == call.videoFile
      at == IF t > v.duration THEN v.duration ELSE t
  IN v.content[at + 1]

\* canvas.width, canvas.height
CanvasSize == <<call.videoFile.width, call.videoFile.height>>

\* resolve and reject settle a pending promise and do nothing to a settled
\* one.
Settle(outcome) ==
  /\ promise' = IF promise = "pending" THEN outcome ELSE promise
  /\ settleCalls' = settleCalls + 1

\* The call: the executor of the promise, up to video.load().  context is
\* what canvas.getContext('2d') returned, null (FALSE) or a context.
extractFrames(videoFile, framesPerSecond, maxFrames, options) ==
  /\ promise = "none"
  /\ \E context \in BOOLEAN :
       /\ call' = [made |-> TRUE, videoFile |-> videoFile,
                   framesPerSecond |-> framesPerSecond,
                   maxFrames |-> maxFrames, options |-> options,
                   context |-> context]
       /\ IF ~context
          THEN /\ promise' = "rejected"
               /\ settleCalls' = settleCalls + 1
               /\ element' = element
          ELSE /\ promise' = "pending"
               /\ settleCalls' = settleCalls
               /\ element' = "loading"
  /\ UNCHANGED <<currentTime, acceptedFrameCount, extractedFrames,
                 lastAcceptedFrameData, seeking, seeks, progress, accepted,
                 judged, appVars, serviceVars>>

\* Mutant of processFrame: the sampling goes on until the end of the video,
\* whatever the number of frames accepted.
processFrame_NoLimit(time, count) ==
  IF time > call.videoFile.duration
  THEN /\ Settle("resolved")
       /\ seeking' = NoSeek
       /\ seeks' = seeks
  ELSE /\ seeking' = time
       /\ seeks' = Append(seeks, time)
       /\ UNCHANGED <<promise, settleCalls>>

\* processFrame, run with the values that currentTime and acceptedFrameCount
\* have when it is called.
processFrame(time, count) ==
  IF time > call.videoFile.duration \/ count >= call.maxFrames
  THEN /\ Settle("resolved")
       /\ seeking' = NoSeek
       /\ seeks' = seeks
  ELSE /\ seeking' = time
       /\ seeks' = Append(seeks, time)
       /\ UNCHANGED <<promise, settleCalls>>

\* Mutant of loadedmetadata: the sampling starts one interval into the video.
loadedmetadata_SkipsStart ==
  /\ element = "loading"
  /\ call.videoFile.failsAt # 0
  /\ element' = "loaded"
  /\ currentTime' = Interval(call.framesPerSecond)
  /\ acceptedFrameCount' = 0
  /\ processFrame(Interval(call.framesPerSecond), 0)
  /\ UNCHANGED <<call, extractedFrames, lastAcceptedFrameData, progress,
                 accepted, judged, appVars, serviceVars>>

\* The loadedmetadata listener.
loadedmetadata ==
  /\ element = "loading"
  /\ call.videoFile.failsAt # 0
  /\ element' = "loaded"
  /\ currentTime' = 0
  /\ acceptedFrameCount' = 0
  /\ processFrame(0, 0)
  /\ UNCHANGED <<call, extractedFrames, lastAcceptedFrameData, progress,
                 accepted, judged, appVars, serviceVars>>

\* Mutant of seeked: every candidate becomes the baseline of the next
\* comparison, accepted or not.
seeked_BaselineIsLastCandidate ==
  /\ element = "loaded"
  /\ seeking # NoSeek
  /\ Len(seeks) # call.videoFile.failsAt
  /\ LET data == Drawn(seeking)
         verdict == Verdicts[CanvasSize, data, lastAcceptedFrameData,
                             call.options]
         isBlurry == verdict.isBlurry
         isSimilar == verdict.isSimilar
         count == IF ~isBlurry /\ ~isSimilar THEN acceptedFrameCount + 1
                  ELSE acceptedFrameCount
     IN /\ IF ~isBlurry /\ ~isSimilar
           THEN /\ extractedFrames' = Append(extractedFrames, verdict.dataURL)
                /\ accepted' = Append(accepted, data)
                /\ progress' = Append(progress,
                                      [current |-> count,
                                       total |-> call.maxFrames])
           ELSE UNCHANGED <<extractedFrames, accepted, progress>>
        /\ lastAcceptedFrameData' = data
        /\ acceptedFrameCount' = count
        /\ judged' = judged + 1
        /\ currentTime' = currentTime + Interval(call.framesPerSecond)
        /\ processFrame(currentTime + Interval(call.framesPerSecond), count)
  /\ UNCHANGED <<call, element, appVars, serviceVars>>

\* The seeked listener: the seek in flight has completed.
seeked ==
  /\ element = "loaded"
  /\ seeking # NoSeek
  /\ Len(seeks) # call.videoFile.failsAt
  /\ LET data == Drawn(seeking)
         verdict == Verdicts[CanvasSize, data, lastAcceptedFrameData,
                             call.options]
         isBlurry == verdict.isBlurry
         isSimilar == verdict.isSimilar
         count == IF ~isBlurry /\ ~isSimilar THEN acceptedFrameCount + 1
                  ELSE acceptedFrameCount
     IN /\ IF ~isBlurry /\ ~isSimilar
           THEN /\ extractedFrames' = Append(extractedFrames, verdict.dataURL)
                /\ lastAcceptedFrameData' = data
                /\ accepted' = Append(accepted, data)
                /\ progress' = Append(progress,
                                      [current |-> count,
                                       total |-> call.maxFrames])
           ELSE UNCHANGED <<extractedFrames, lastAcceptedFrameData, accepted,
                            progress>>
        /\ acceptedFrameCount' = count
        /\ judged' = judged + 1
        /\ currentTime' = currentTime + Interval(call.framesPerSecond)
        /\ processFrame(currentTime + Interval(call.framesPerSecond), count)
  /\ UNCHANGED <<call, element, appVars, serviceVars>>

\* Mutant of error: the listener revokes the URL and does not reject.
error_Silent ==
  /\ \/ element = "loading" /\ call.videoFile.failsAt = 0
     \/ /\ element = "loaded"
        /\ seeking # NoSeek
        /\ Len(seeks) = call.videoFile.failsAt
  /\ element' = "error"
  /\ seeking' = NoSeek
  /\ UNCHANGED <<call, promise, settleCalls, currentTime, acceptedFrameCount,
                 extractedFrames, lastAcceptedFrameData, seeks, progress,
                 accepted, judged, appVars, serviceVars>>

\* The error listener: the video cannot be loaded, or the decoder fails in
\* the seek in flight, which then never completes.
error ==
  /\ \/ element = "loading" /\ call.videoFile.failsAt = 0
     \/ /\ element = "loaded"
        /\ seeking # NoSeek
        /\ Len(seeks) = call.videoFile.failsAt
  /\ element' = "error"
  /\ Settle("rejected")
  /\ seeking' = NoSeek
  /\ UNCHANGED <<call, currentTime, acceptedFrameCount, extractedFrames,
                 lastAcceptedFrameData, seeks, progress, accepted, judged,
                 appVars, serviceVars>>

NextExtract ==
  \/ /\ call = NoCall
     /\ \E videoFile \in VideoFiles, framesPerSecond \in Rates,
           maxFrames \in 0..MaxFramesLimit, options \in Options :
          extractFrames(videoFile, framesPerSecond, maxFrames, options)
  \/ loadedmetadata
  \/ seeked
  \/ error

\* One call of extractFrames, made before the application has done anything.
SpecExtract == Init /\ [][NextExtract]_vars

\* The browser delivers every event it has queued: the load ends in
\* loadedmetadata or error, and every seek ends in seeked or error.
SpecExtractFair ==
  /\ SpecExtract
  /\ WF_vars(loadedmetadata)
  /\ WF_vars(seeked)
  /\ WF_vars(error)

\* ============================================================ image service
\* src/services/geminiService.ts. A text is the sequence of its characters.
\* A description is written with the letter "x" and the space, which is all
\* that substring, trim and lastIndexOf(' ') tell apart; the characters of a
\* style's prefix are written by the name of the style, and a prefix neither
\* starts nor ends with a space. An error message is the sequence of its
\* words and punctuation marks, and includes looks for a run of them.
MaxSide == 8
MaxSlack == 2
MaxSpaces == 2
MaxWord == 2

MAX_PROMPT_LENGTH == 500

Repeat(char, n) == [i \in 1..n |-> char]

\* String.prototype.substring(start, end), 0 <= start <= end.
substring(text, start, end) ==
  SubSeq(text, start + 1, IF end < Len(text) THEN end ELSE Len(text))

\* String.prototype.trim().
trim(text) ==
  IF \A i \in 1..Len(text) : text[i] = " " THEN <<>>
  ELSE SubSeq(text,
              CHOOSE i \in 1..Len(text) :
                text[i] # " " /\ \A j \in 1..(i - 1) : text[j] = " ",
              CHOOSE i \in 1..Len(text) :
                text[i] # " " /\ \A j \in (i + 1)..Len(text) : text[j] = " ")

\* String.prototype.lastIndexOf(char): the 0-based index, -1 if absent.
lastIndexOf(text, char) ==
  IF \A i \in 1..Len(text) : text[i] # char THEN 0 - 1
  ELSE (CHOOSE i \in 1..Len(text) :
          text[i] = char /\ \A j \in (i + 1)..Len(text) : text[j] # char) - 1

\* String.prototype.includes, on words.
includes(message, phrase) ==
  \E i \in 1..Len(message) :
    /\ i + Len(phrase) - 1 <= Len(message)
    /\ SubSeq(message, i, i + Len(phrase) - 1) = phrase

\* enum ArtStyle.
Styles ==
  {"REALISTIC", "CARTOON", "THREE_D_PIXEL", "ANIME", "VINTAGE_PHOTO",
   "CLAYMATION", "FANTASY_ART", "NEON_PUNK"}

\* The number of characters of the string each case returns.
StylePrefixLength(style) ==
  CASE style = "REALISTIC" -> 148
    [] style = "CARTOON" -> 141
    [] style = "THREE_D_PIXEL" -> 148
    [] style = "ANIME" -> 178
    [] style = "VINTAGE_PHOTO" -> 151
    [] style = "CLAYMATION" -> 153
    [] style = "FANTASY_ART" -> 154
    [] style = "NEON_PUNK" -> 174

getStylePromptPrefix(style) == Repeat(style, StylePrefixLength(style))

remainingLength(stylePrefix) == MAX_PROMPT_LENGTH - Len(stylePrefix) - 1

truncatedDescription(description, stylePrefix) ==
  IF remainingLength(stylePrefix) > 0
       /\ Len(description) > remainingLength(stylePrefix)
  THEN LET cut == trim(substring(description, 0, remainingLength(stylePrefix)))
           lastSpaceIndex == lastIndexOf(cut, " ")
       IN IF lastSpaceIndex # 0 - 1 THEN substring(cut, 0, lastSpaceIndex)
          ELSE cut
  ELSE IF remainingLength(stylePrefix) <= 0 THEN <<>>
  ELSE description

finalPrompt(style, description) ==
  LET stylePrefix == getStylePromptPrefix(style)
  IN trim(stylePrefix \o <<" ">>
            \o truncatedDescription(description, stylePrefix))

\* Object.keys(ratios), in the order of the literal, and the ratios as
\* fractions <<numerator, denominator>>.
RatioKeys == <<"16:9", "9:16", "4:3", "3:4", "1:1">>

ratios(key) ==
  CASE key = "16:9" -> <<16, 9>>
    [] key = "9:16" -> <<9, 16>>
    [] key = "4:3" -> <<4, 3>>
    [] key = "3:4" -> <<3, 4>>
    [] key = "1:1" -> <<1, 1>>

\* |a/b - n/d| as a count of 1/(b*d).
Distance(ratio, aspect) ==
  Abs(ratio[1] * aspect[2] - aspect[1] * ratio[2])

Closer_OrEqual(curr, prev, aspect) ==
  Distance(ratios(curr), aspect) * ratios(prev)[2]
    <= Distance(ratios(prev), aspect) * ratios(curr)[2]

\* The test of the reducer: Math.abs(ratios[curr] - aspectRatio) <
\* Math.abs(ratios[prev] - aspectRatio), both sides multiplied by the three
\* denominators.
Closer(curr, prev, aspect) ==
  Distance(ratios(curr), aspect) * ratios(prev)[2]
    < Distance(ratios(prev), aspect) * ratios(curr)[2]

\* Array.prototype.reduce without an initial value.
RECURSIVE reduce(_, _, _, _)
reduce(keys, k, prev, aspect) ==
  IF k > Len(keys) THEN prev
  ELSE reduce(keys, k + 1,
              IF Closer(keys[k], prev, aspect) THEN keys[k] ELSE prev,
              aspect)

\* An aspect ratio is Null or the fraction videoWidth / videoHeight; Null and
\* 0 are the falsy ones.
AspectRatios == {Null} \cup ((0..MaxSide) \X (1..MaxSide))

apiAspectRatio(aspect) ==
  IF aspect = Null \/ aspect[1] = 0 THEN "1:1"
  ELSE reduce(RatioKeys, 2, RatioKeys[1], aspect)

\* The messages of the errors this file constructs.
KeyNotSetMessage ==
  <<"Gemini", "API", "key", "is", "not", "set", ".", "Please", "configure",
    "VITE_API_KEY", "in", "Vercel", "or", "via", "the", "settings", "UI", ".">>
ImagenEmptyMessage ==
  <<"Imagen", "failed", "to", "generate", "an", "image", ".">>
InvalidKeyMessage ==
  <<"Your", "Gemini", "API", "key", "is", "not", "valid", ".", "Please",
    "check", "your", "configuration", ".">>
RateLimitMessage ==
  <<"API", "rate", "limit", "or", "quota", "exceeded", ".", "Please", "try",
    "again", "later", ".">>
GenerationBlockedMessage ==
  <<"Image", "generation", "was", "blocked", "due", "to", "safety",
    "policies", ".", "Please", "try", "a", "different", "frame", ".">>
RegenerateFailedMessage ==
  <<"Failed", "to", "regenerate", "image", "with", "Gemini", ".", "Check",
    "the", "console", "for", "details", ".">>
EditBlockedMessage(blockingReason) ==
  <<"Image", "editing", "was", "blocked", ".", "Reason", ":", blockingReason,
    ".", "Please", "modify", "your", "prompt", "and", "try", "again", ".">>
NoImageMessage ==
  <<"No", "image", "was", "generated", "in", "the", "API", "response", "for",
    "editing", ".">>
EditFailedMessage ==
  <<"Failed", "to", "edit", "image", "with", "Gemini", ".", "Check", "the",
    "console", "for", "details", ".">>
\* description.length of an undefined description.
TypeErrorMessage ==
  <<"Cannot", "read", "properties", "of", "undefined", ".">>

\* A thrown value: whether it is an Error, its message, and what went wrong
\* (cause: "credentials" | "rate" | "safety" | "empty" | "other", reason:
\* the blocking reason of a safety block).
Thrown(isError, message, cause, reason) ==
  [isError |-> isError, message |-> message, cause |-> cause,
   reason |-> reason]

\* What the calls of the SDK throw: the service's answers to a key it does
\* not accept, to a request over the rate or the quota and to blocked
\* content, a failure of the network, and a value that is not an Error.
ApiErrors ==
  {Thrown(TRUE, <<"API", "key", "not", "valid", ".", "Please", "pass", "a",
                  "valid", "API", "key", ".">>, "credentials", "none"),
   Thrown(TRUE, <<"code", "429", "status", "RESOURCE_EXHAUSTED">>,
          "rate", "none"),
   Thrown(TRUE, <<"The", "request", "was", "blocked", ":", "SAFETY">>,
          "safety", "SAFETY"),
   Thrown(TRUE, <<"fetch", "failed">>, "other", "none"),
   Thrown(FALSE, <<>>, "other", "none")}

\* getAiClient: the client, or the error it throws when neither localStorage
\* nor the environment holds a key.
getAiClient(apiKey) ==
  IF apiKey THEN [client |-> TRUE]
  ELSE [client |-> FALSE,
        error |-> Thrown(TRUE, KeyNotSetMessage, "credentials", "none")]

\* The catch block of regenerateImage: the error it throws for the one caught.
regenerateCatch(thrown) ==
  IF thrown.isError /\ includes(thrown.message, <<"API", "key", "not", "valid">>)
  THEN InvalidKeyMessage
  ELSE IF thrown.isError /\ (\/ includes(thrown.message, <<"429">>)
                            \/ includes(thrown.message, <<"RESOURCE_EXHAUSTED">>))
  THEN RateLimitMessage
  ELSE IF thrown.isError /\ includes(thrown.message, <<"blocked">>)
  THEN GenerationBlockedMessage
  ELSE RegenerateFailedMessage

\* The catch block of editImage.
editCatch(thrown) ==
  IF thrown.isError /\ includes(thrown.message, <<"API", "key", "not", "valid">>)
  THEN InvalidKeyMessage
  ELSE IF thrown.isError /\ (\/ includes(thrown.message, <<"429">>)
                            \/ includes(thrown.message, <<"RESOURCE_EXHAUSTED">>))
  THEN RateLimitMessage
  ELSE IF thrown.isError /\ includes(thrown.message, <<"blocked">>)
  THEN thrown.message
  ELSE EditFailedMessage

Catch(operation, thrown) ==
  IF operation = "regenerateImage" THEN regenerateCatch(thrown)
  ELSE editCatch(thrown)

\* The promise rejects with the error of the catch block.
Reject(operation, thrown) ==
  /\ request' = [operation |-> operation, awaiting |-> "none"]
  /\ reply' = [settled |-> "rejected", operation |-> operation,
               message |-> Catch(operation, thrown),
               cause |-> thrown.cause, reason |-> thrown.reason]

\* Descriptions: a word, spaces, a word, a space, and a last word or none.
\* The first word is short, or about as long as what a prefix leaves.
Runs(a, s, b, c) ==
  Repeat("x", a) \o Repeat(" ", s) \o Repeat("x", b) \o <<" ">>
    \o Repeat("x", c)

FirstWords ==
  {2} \cup {remainingLength(getStylePromptPrefix(style)) + 1 - slack :
              style \in Styles, slack \in 0..(MaxSlack + 1)}

Descriptions ==
  {Runs(a, s, b, c) : a \in FirstWords, s \in 1..MaxSpaces, b \in 1..MaxWord,
                      c \in 0..1}

\* response.text of a describe call whose content was blocked for SAFETY:
\* undefined.
NoText == <<"undefined">>

EditPrompts == {"a", "b"}

\* The responses of the edit call: a candidate with an image part, a
\* candidate with text only, a candidate stopped for SAFETY or RECITATION,
\* and no candidate, with a blockReason in promptFeedback or without one.
EditResponses ==
  {[candidate |-> TRUE, inlineData |-> TRUE, finishReason |-> "STOP",
    blockReason |-> "none"],
   [candidate |-> TRUE, inlineData |-> FALSE, finishReason |-> "STOP",
    blockReason |-> "none"],
   [candidate |-> TRUE, inlineData |-> FALSE, finishReason |-> "SAFETY",
    blockReason |-> "none"],
   [candidate |-> TRUE, inlineData |-> FALSE, finishReason |-> "RECITATION",
    blockReason |-> "none"],
   [candidate |-> FALSE, inlineData |-> FALSE, finishReason |-> "none",
    blockReason |-> "PROHIBITED_CONTENT"],
   [candidate |-> FALSE, inlineData |-> FALSE, finishReason |-> "none",
    blockReason |-> "none"]}

\* regenerateImage up to its first await: describeImage asks for the client
\* and issues the describe call.
regenerateImage(style, aspect, apiKey) ==
  /\ reply = NoReply
  /\ IF getAiClient(apiKey).client
     THEN /\ request' = [operation |-> "regenerateImage",
                         awaiting |-> "describeImage", style |-> style,
                         aspectRatio |-> aspect, apiKey |-> apiKey]
          /\ UNCHANGED reply
     ELSE Reject("regenerateImage", getAiClient(apiKey).error)
  /\ UNCHANGED <<appVars, samplerVars>>

\* The describe call returns: the prompt is built, generateImageWithImagen
\* picks the output ratio and issues the generation call. The text of a
\* blocked description is undefined, and reading its length throws.
describeImageReturns(text) ==
  /\ request.operation = "regenerateImage"
  /\ request.awaiting = "describeImage"
  /\ IF text = NoText
     THEN Reject("regenerateImage",
                 Thrown(TRUE, TypeErrorMessage, "safety", "SAFETY"))
     ELSE /\ request' = [operation |-> "regenerateImage",
                         awaiting |-> "generateImages",
                         style |-> request.style,
                         description |-> text,
                         prompt |-> finalPrompt(request.style, text),
                         config |-> [aspectRatio |->
                                       apiAspectRatio(request.aspectRatio)],
                         aspectRatio |-> request.aspectRatio]
          /\ UNCHANGED reply
  /\ UNCHANGED <<appVars, samplerVars>>

\* The generation call returns, with an image or with none.
generateImagesReturns(image) ==
  /\ request.operation = "regenerateImage"
  /\ request.awaiting = "generateImages"
  /\ IF image
     THEN /\ request' = [operation |-> "regenerateImage", awaiting |-> "none"]
          /\ reply' = [settled |-> "resolved", operation |-> "regenerateImage",
                       style |-> request.style,
                       description |-> request.description,
                       prompt |-> request.prompt]
     ELSE Reject("regenerateImage",
                 Thrown(TRUE, ImagenEmptyMessage, "empty", "none"))
  /\ UNCHANGED <<appVars, samplerVars>>

\* editImage up to its await.
editImage(prompt, apiKey) ==
  /\ reply = NoReply
  /\ IF getAiClient(apiKey).client
     THEN /\ request' = [operation |-> "editImage",
                         awaiting |-> "generateContent", prompt |-> prompt]
          /\ UNCHANGED reply
     ELSE Reject("editImage", getAiClient(apiKey).error)
  /\ UNCHANGED <<appVars, samplerVars>>

\* The edit call returns.
generateContentReturns(response) ==
  /\ request.operation = "editImage"
  /\ request.awaiting = "generateContent"
  /\ IF response.candidate /\ response.inlineData
     THEN /\ request' = [operation |-> "editImage", awaiting |-> "none"]
          /\ reply' = [settled |-> "resolved", operation |-> "editImage",
                       prompt |-> <<"Edited", "with", "user", "prompt", ":",
                                    request.prompt>>]
     ELSE IF \/ response.finishReason = "SAFETY"
             \/ response.finishReason = "RECITATION"
             \/ response.blockReason # "none"
     THEN LET blockingReason ==
                IF response.finishReason # "none" THEN response.finishReason
                ELSE response.blockReason
          IN Reject("editImage",
                    Thrown(TRUE, EditBlockedMessage(blockingReason), "safety",
                           blockingReason))
     ELSE Reject("editImage", Thrown(TRUE, NoImageMessage, "empty", "none"))
  /\ UNCHANGED <<appVars, samplerVars>>

\* The call awaited throws.
apiCallThrows(thrown) ==
  /\ request.operation # "none"
  /\ request.awaiting # "none"
  /\ Reject(request.operation, thrown)
  /\ UNCHANGED <<appVars, samplerVars>>

NextService ==
  \/ /\ request = NoRequest
     /\ \E style \in Styles, aspect \in AspectRatios, apiKey \in BOOLEAN :
          regenerateImage(style, aspect, apiKey)
  \/ /\ request = NoRequest
     /\ \E prompt \in EditPrompts, apiKey \in BOOLEAN : editImage(prompt, apiKey)
  \/ /\ request.operation = "regenerateImage"
     /\ request.awaiting = "describeImage"
     /\ \E text \in Descriptions \cup {NoText} : describeImageReturns(text)
  \/ \E image \in BOOLEAN : generateImagesReturns(image)
  \/ \E response \in EditResponses : generateContentReturns(response)
  \/ \E thrown \in ApiErrors : apiCallThrows(thrown)

\* One call of regenerateImage or of editImage, made before the application
\* has done anything.
SpecService == Init /\ [][NextService]_vars

TypeOK ==
  /\ describeCount \in Nat
  /\ Len(originalFrames) <= NumSrcs
  /\ Len(pending) <= MaxPending
  /\ regeneratedFrames = <<>>

\* ==================================================================== claims
remainingDescribes == SESSION_DESCRIBE_LIMIT - describeCount

\* External service calls that have been issued and have not yet settled.
InFlight == Len(pending) + (IF batch.pc = "call" THEN 1 ELSE 0)

\* A step in which the suspended single-frame handler pending[n] resumes.
Resumes(n) == n \in 1..Len(pending) /\ pending' = RemoveAt(pending, n)

\* A step in which handleBatchDescribe is admitted and issues its first call.
BatchStarts == batch.pc = "idle" /\ batch'.pc = "call"

\* A step in which handleDescribeImage is admitted and issues its call.
DescribeStarts ==
  /\ Len(pending') > Len(pending)
  /\ pending'[Len(pending')].kind = "describe"

Min(a, b) == IF a < b THEN a ELSE b

\* C1: in every reachable state describeCount is at most
\* SESSION_DESCRIBE_LIMIT, whatever the interleaving of single-frame and
\* batch describe operations, also when one starts while another's call is
\* in flight.
C1_QuotaNeverExceeded == describeCount <= SESSION_DESCRIBE_LIMIT

\* C2: when the call of a single-frame describe or translate completes, the
\* store holds what it held just before, changes made during the call
\* included, except for the targeted frame: no frame is added, removed or
\* reverted by the completion.
C2_CompletionKeepsStore ==
  [][\A n \in 1..Len(pending) :
       Resumes(n) =>
         /\ Len(originalFrames') = Len(originalFrames)
         /\ \A k \in 1..Len(originalFrames) :
              originalFrames[k].src # pending[n].src
                => originalFrames'[k] = originalFrames[k]]_vars

\* C3: a regenerate invocation whose preconditions fail (no original frame,
\* no aspect ratio, or more targets than the remaining quota) issues no
\* call and leaves the counter and both collections unchanged.  The alerts
\* "upload_first" and "coming_soon" are raised by handleRegenerate only.
C3_RegenerateRejectedNoEffect ==
  [][alertMsg' \in {"upload_first", "coming_soon"} =>
       UNCHANGED <<originalFrames, regeneratedFrames, describeCount,
                   descriptionsReturned, pending, batch, isLoading>>]_vars

\* C3 witness: regenerate was invoked with more targets than descriptions
\* remain.
C3_Witness ==
  /\ alertMsg = "coming_soon"
  /\ Len(selectedFrames) > remainingDescribes

\* C4 (as claimed): a running batch has all of the undescribed selected
\* frames as its targets: it is never shortened to the remaining quota.
C4_BatchNeverShortened ==
  batch.pc \in {"call", "delay"} => Len(batch.indices) = batch.candidates

\* C4 (amended): a batch describe is admitted only while a description
\* remains; its targets are then the first min(n, remaining) of the n
\* undescribed selected frames, in selection order, and the user is told
\* exactly when the batch was shortened.  It is rejected as a whole, with
\* nothing changed, only when no description remains.
C4_BatchShortenedToQuota ==
  [][/\ BatchStarts =>
          LET c == Undescribed(originalFrames, selectedFrames)
          IN /\ remainingDescribes > 0
             /\ batch'.indices = SubSeq(c, 1, Min(Len(c), remainingDescribes))
             /\ (alertMsg' = "batch_shortened") <=> (Len(c) > remainingDescribes)
     /\ alertMsg' = "limit_reached" =>
          /\ remainingDescribes <= 0
          /\ UNCHANGED <<batch, pending, isLoading, originalFrames>>]_vars

\* C4 witness: a batch is running on fewer targets than undescribed frames
\* were selected.
C4_Witness ==
  /\ batch.pc = "call"
  /\ alertMsg = "batch_shortened"
  /\ Len(batch.indices) < batch.candidates

\* C5 (as claimed): a batch that ends by a failed call has charged the
\* counter with the number of its target indices.
C5_ChargedForAttempted ==
  [][(lastBatch'.ended /\ alertMsg' = "batch_failed") =>
       describeCount' = describeCount + lastBatch'.size]_vars

\* C5 (amended): when a batch ends, the counter is increased by the number
\* of its calls that succeeded: all calls issued, less the failed one if the
\* batch ended by a failure.
C5_ChargedForCompleted ==
  [][lastBatch'.ended =>
       describeCount' = describeCount + lastBatch'.calls
                          - (IF alertMsg' = "batch_failed" THEN 1 ELSE 0)]_vars

\* C5 witness: a batch of 2 targets whose second call failed has ended.
C5_Witness ==
  /\ lastBatch.ended
  /\ alertMsg = "batch_failed"
  /\ lastBatch.size = 2
  /\ lastBatch.calls = 2
  /\ lastBatch.descriptionsMade = 1

\* C6: the counter never decreases; counter plus the descriptions a running
\* batch has made and not yet charged equals the number of describe calls
\* that succeeded, all of them issued by admitted operations; an operation
\* is admitted only while a description remains, and one rejected by the
\* quota check issues no call and changes neither counter nor frames.
C6_CounterIsSumOfCharges ==
  [][/\ describeCount' >= describeCount
     /\ describeCount' + batch'.descriptionsMade = descriptionsReturned'
     /\ (BatchStarts \/ DescribeStarts) => remainingDescribes > 0
     /\ alertMsg' = "limit_reached" =>
          /\ remainingDescribes <= 0
          /\ InFlight' = InFlight
          /\ UNCHANGED <<describeCount, originalFrames, regeneratedFrames,
                         pending, batch>>]_vars

\* C6 witness: the quota check has just rejected an operation.
C6_Witness ==
  /\ alertMsg = "limit_reached"
  /\ describeCount >= SESSION_DESCRIBE_LIMIT

\* A step in which the call in flight of the batch fails.
BatchCallFails ==
  /\ batch.pc = "call"
  /\ batch'.pc # "call"
  /\ descriptionsReturned' = descriptionsReturned

\* C7: when the call for the k-th target of a batch fails, the batch ends
\* having issued k calls (none for a later target), the store is left as it
\* is (nothing written for earlier targets is rolled back), and the failure
\* is reported.
C7_FailFastNoRollback ==
  [][BatchCallFails =>
       /\ batch' = IdleBatch
       /\ lastBatch'.ended
       /\ lastBatch'.calls = batch.i
       /\ lastBatch'.descriptionsMade = batch.i - 1
       /\ originalFrames' = originalFrames
       /\ alertMsg' = "batch_failed"]_vars

\* C7 witness: a batch of 2 targets has ended at the failure of its first
\* call.
C7_Witness ==
  /\ lastBatch.ended
  /\ alertMsg = "batch_failed"
  /\ lastBatch.size = 2
  /\ lastBatch.calls = 1

\* C8: at no time are two external service calls in flight.
C8_OneCallInFlight == InFlight <= 1

\* C9: a batch takes one delay between two consecutive calls and none after
\* its last call or after a failed call: while a call is in flight the
\* delays are one fewer than the calls, during a delay they are as many and
\* a further target is left, and a batch of n >= 1 calls ends with n - 1.
C9_DelaysBetweenCalls ==
  /\ batch.pc = "call" => batch.delays = batch.calls - 1
  /\ batch.pc = "delay" =>
       /\ batch.delays = batch.calls
       /\ batch.i < Len(batch.indices)
  /\ (lastBatch.ended /\ lastBatch.calls >= 1) =>
       lastBatch.delays = lastBatch.calls - 1

\* C9 witness: a batch of 2 calls has ended without failure.
C9_Witness ==
  /\ lastBatch.ended
  /\ alertMsg = "none"
  /\ lastBatch.calls = 2
  /\ lastBatch.delays = 1

\* C11: in every reachable state the derived collection regeneratedFrames
\* is empty or exactly as long as originalFrames.
C11_DerivedEmptyOrAligned ==
  regeneratedFrames = <<>> \/ Len(regeneratedFrames) = Len(originalFrames)

\* C11 witness: frames were captured and regenerate was invoked on a
\* selection; the derived collection is (still) empty.
C11_Witness ==
  /\ alertMsg = "coming_soon"
  /\ Len(originalFrames) = NumSrcs
  /\ regeneratedFrames = <<>>

\* C15: every index in selectedFrames is a position of originalFrames, and
\* every index in selectedRegenFrames is a position of regeneratedFrames
\* that holds a frame.
C15_SelectionInRange ==
  /\ \A k \in Range(selectedFrames) : k \in 1..Len(originalFrames)
  /\ \A k \in Range(selectedRegenFrames) :
       k \in 1..Len(regeneratedFrames) /\ regeneratedFrames[k].src # 0

NoDuplicate(frames) ==
  \A j, k \in 1..Len(frames) : j # k => frames[j].src # frames[k].src

\* C16: originalFrames never holds two frames of equal content (src); a
\* manual capture of a content that is in the store leaves the store as it
\* is, and a capture of any other content appends one frame, without prompt,
\* at the end and changes no frame that was there.
C16_CaptureDeduplicates ==
  /\ []NoDuplicate(originalFrames)
  /\ [][\A frameData \in Srcs :
          handleManualFrameExtract(frameData) =>
            IF \E k \in 1..Len(originalFrames) :
                 originalFrames[k].src = frameData
            THEN originalFrames' = originalFrames
            ELSE /\ Len(originalFrames') = Len(originalFrames) + 1
                 /\ SubSeq(originalFrames', 1, Len(originalFrames))
                      = originalFrames
                 /\ originalFrames'[Len(originalFrames')]
                      = OriginalFrame(frameData, 0, 0)]_vars

\* C16 witness: every content the video yields has been captured once: each
\* further capture is one of a content that is in the store.
C16_Witness ==
  /\ Len(originalFrames) = NumSrcs
  /\ {originalFrames[k].src : k \in 1..Len(originalFrames)} = Srcs

\* C17: when a single-frame operation resumes and its target frame is not in
\* the store (any more), the operation is aborted: an error is alerted and
\* no frame of either collection changes.
C17_AbsentTargetAborts ==
  [][\A n \in 1..Len(pending) :
       (Resumes(n) /\ FindIndex(originalFrames, pending[n].src) = 0) =>
         /\ alertMsg' # "none"
         /\ UNCHANGED <<originalFrames, regeneratedFrames>>]_vars

\* C18: when the external call of a single-frame describe or translate
\* fails, the failure is alerted and originals, derived frames, both
\* selections and the counter are left as they are.
C18_FailedCallChangesNothing ==
  [][\A n \in 1..Len(pending) :
       (DescribeRejected(n) \/ TranslateRejected(n)) =>
         /\ alertMsg' \in {"describe_failed", "translate_failed"}
         /\ UNCHANGED <<originalFrames, regeneratedFrames, selectedFrames,
                        selectedRegenFrames, activeSelection,
                        describeCount>>]_vars

\* C18 witness: a translate call has failed for a frame that keeps its
\* description and has no translation, with a frame selected.
C18_Witness ==
  /\ alertMsg = "translate_failed"
  /\ pending = <<>>
  /\ Len(selectedFrames) > 0
  /\ \E k \in 1..Len(originalFrames) :
       originalFrames[k].prompt # 0 /\ originalFrames[k].translatedPrompt = 0

\* A step in which the call in flight of the batch succeeds.
BatchCallSucceeds ==
  /\ batch.pc = "call"
  /\ batch'.pc # "call"
  /\ descriptionsReturned' = descriptionsReturned + 1
  /\ pending' = pending

BatchEnds == batch.pc \in {"call", "notice"} /\ batch'.pc = "idle"

NewIndex(k, S) == k - Cardinality({x \in S : x < k})

\* C12: delete-selected with selection S on n originals leaves the n - |S|
\* originals whose index is not in S, in their order, and removes the
\* entries at the same indices from a derived collection that is not empty:
\* the derived entry (frame or hole) of a surviving original is at the
\* original's new index.
C12_DeleteSelectedCompactsBoth ==
  [][handleDeleteSelected =>
       LET S == Range(selectedFrames)
           n == Len(originalFrames)
           m == Len(regeneratedFrames)
       IN /\ Len(originalFrames') = n - Cardinality(S)
          /\ \A k \in (1..n) \ S :
               originalFrames'[NewIndex(k, S)] = originalFrames[k]
          /\ m > 0 =>
               /\ Len(regeneratedFrames') = m - Cardinality(S \cap (1..m))
               /\ \A k \in (1..m) \ S :
                    regeneratedFrames'[NewIndex(k, S)] = regeneratedFrames[k]
          /\ m = n =>
               \A j \in 1..Len(regeneratedFrames') :
                 regeneratedFrames'[j].src \in
                   {0, RegeneratedSrc(originalFrames'[j].src)}]_vars

\* C13: delete-selected-derived makes each selected derived entry a hole;
\* the derived collection keeps its length, the other entries keep index
\* and value, and the originals and the counter are unchanged.
C13_DeleteDerivedLeavesHoles ==
  [][handleDeleteRegenerated =>
       /\ Len(regeneratedFrames') = Len(regeneratedFrames)
       /\ \A k \in 1..Len(regeneratedFrames) :
            regeneratedFrames'[k] =
              IF k \in Range(selectedRegenFrames)
              THEN Hole ELSE regeneratedFrames[k]
       /\ UNCHANGED <<originalFrames, describeCount>>]_vars

\* C13 witness: one derived frame of a full derived collection was deleted:
\* its position is a hole, the collection has its length and another frame
\* is where it was.
C13_Witness ==
  /\ Len(originalFrames) = NumSrcs
  /\ Len(regeneratedFrames) = NumSrcs
  /\ regeneratedFrames[1] = Hole
  /\ regeneratedFrames[NumSrcs].src
       = RegeneratedSrc(originalFrames[NumSrcs].src)

\* C14: at most one of selectedFrames and selectedRegenFrames is not empty,
\* and each select, deselect and select-all of one collection leaves the
\* selection of the other collection empty.
C14_OneSelectionAtATime ==
  /\ [](selectedFrames = <<>> \/ selectedRegenFrames = <<>>)
  /\ [][/\ (handleSelectAllOriginal
              \/ \E index \in 1..NumSrcs : handleFrameSelect(index))
            => selectedRegenFrames' = <<>>
        /\ (handleSelectAllRegenerated
              \/ \E index \in 1..NumSrcs : handleRegenFrameSelect(index))
            => selectedFrames' = <<>>]_vars

\* C14 witness: derived frames are selected in a store that holds originals:
\* no original is selected.
C14_Witness ==
  /\ selectedRegenFrames # <<>>
  /\ selectedFrames = <<>>
  /\ activeSelection = "regenerated"
  /\ Len(originalFrames) = NumSrcs

\* C22: the quota period of the program is the session, which starts with
\* the counter at 0 (Init) and does not change while the application runs:
\* no step brings a positive describeCount back to 0, and uploading a new
\* video, deleting the selected frames and closing the preview leave
\* describeCount as it was.
C22_CounterNeverReset ==
  [][/\ describeCount > 0 => describeCount' > 0
     /\ (handleVideoUpload \/ handleDeleteSelected \/ handleClosePreview)
          => describeCount' = describeCount]_vars

\* A new video was uploaded, or every frame deleted, after descriptions
\* were charged: the store is empty and the counter is not.
C22_Witness ==
  /\ describeCount > 0
  /\ originalFrames = <<>>
  /\ ~previewImages.open
  /\ pending = <<>>
  /\ batch.pc = "idle"

\* ------------------------------------------------------- claims, the sampler
Settled == promise \in {"resolved", "rejected"}

\* C23: in the sequence of accepted frames, every frame after the first
\* differs from the accepted frame before it by an average, over the red,
\* green and blue of the sampled pixels, that is not below
\* similarityThreshold: the summed difference is at least the threshold times
\* 3 times the number of pixels sampled.
C23_AdjacentAcceptedDiffer ==
  \A j \in 2..Len(accepted) :
    SampledDiff(Pixels(CanvasSize, accepted[j]),
                Pixels(CanvasSize, accepted[j - 1]))
      >= call.options.similarityThreshold * 3
           * Cardinality(SampledPixels(CanvasSize[1] * CanvasSize[2]))

\* C24, as stated: every accepted frame, the first one and the frames with
\* no interior pixel included, has a Laplacian response whose variance is at
\* least blurThreshold.
C24_AcceptedIsSharp ==
  \A j \in 1..Len(accepted) :
    LET laplacianValues == Laplacian(Pixels(CanvasSize, accepted[j]),
                                     CanvasSize[1], CanvasSize[2])
    IN /\ Len(laplacianValues) > 0
       /\ ~VarianceBelow(laplacianValues, call.options.blurThreshold)

\* C24, amended: every accepted frame that has an interior pixel, the first
\* one included, has a Laplacian response whose variance is at least
\* blurThreshold; a frame with no interior pixel has no response and is
\* accepted whenever it is not too similar to the last accepted frame.
C24_AcceptedWithInteriorIsSharp ==
  /\ [](\A j \in 1..Len(accepted) :
          LET laplacianValues == Laplacian(Pixels(CanvasSize, accepted[j]),
                                           CanvasSize[1], CanvasSize[2])
          IN Len(laplacianValues) > 0 =>
               ~VarianceBelow(laplacianValues, call.options.blurThreshold))
  /\ [][(/\ seeked
         /\ call.videoFile.width <= 2 \/ call.videoFile.height <= 2
         /\ ~areFramesSimilar(Pixels(CanvasSize, Drawn(seeking)),
                              Pixels(CanvasSize, lastAcceptedFrameData),
                              CanvasSize[1], CanvasSize[2],
                              call.options.similarityThreshold))
        => accepted' = Append(accepted, Drawn(seeking))]_vars

\* C24 witness: with a positive blurThreshold, two frames with interior
\* pixels were accepted and a solid black one was judged and left out.
C24_Witness ==
  /\ Len(accepted) = 2
  /\ judged = 3
  /\ call.videoFile.width > 2
  /\ call.options.blurThreshold > 0
  /\ \E k \in 1..3 : call.videoFile.content[k] = "black"

\* The case of C25: the first picture is accepted, every other picture is
\* the first one again or is judged blurry, and equal pictures are too
\* similar (similarityThreshold is positive).
OnlyFirstIsNew ==
  LET v == call.videoFile
      blurry(kind) == isFrameBlurry(Pixels(CanvasSize, kind),
                                    v.width, v.height,
                                    call.options.blurThreshold)
  IN /\ call.maxFrames >= 1
     /\ call.options.similarityThreshold > 0
     /\ ~blurry(v.content[1])
     /\ \A k \in 2..Len(v.content) :
          v.content[k] = v.content[1] \/ blurry(v.content[k])

\* C25: the baseline of the similarity comparison is the most recently
\* accepted frame, never a rejected candidate: when the candidates are all
\* equal to an accepted first frame except for blurry ones, exactly one
\* frame, the first, is accepted.
C25_BaselineIsLastAccepted ==
  /\ lastAcceptedFrameData =
       IF accepted = <<>> THEN NoFrame ELSE accepted[Len(accepted)]
  /\ (promise = "resolved" /\ OnlyFirstIsNew) =>
       /\ Len(extractedFrames) = 1
       /\ accepted = <<Drawn(0)>>

\* C25 witness: a run over sharp, black, sharp with both thresholds
\* positive has ended.
C25_Witness ==
  /\ promise = "resolved"
  /\ OnlyFirstIsNew
  /\ judged = 3
  /\ call.videoFile.content = <<"sharp", "black", "sharp">>
  /\ call.videoFile.width > 2
  /\ call.options.blurThreshold > 0

\* The frames that the arguments c of a call determine, from the instant
\* time on, with the last accepted frame baseline and count frames accepted.
RECURSIVE AcceptedFrom(_, _, _, _)
AcceptedFrom(c, time, baseline, count) ==
  IF time > c.videoFile.duration \/ count >= c.maxFrames THEN <<>>
  ELSE LET v == c.videoFile
           size == <<v.width, v.height>>
           data == v.content[time + 1]
           next == time + Interval(c.framesPerSecond)
       IN IF /\ ~isFrameBlurry(Pixels(size, data), v.width, v.height,
                               c.options.blurThreshold)
             /\ ~areFramesSimilar(Pixels(size, data), Pixels(size, baseline),
                                  v.width, v.height,
                                  c.options.similarityThreshold)
          THEN <<data>> \o AcceptedFrom(c, next, data, count + 1)
          ELSE AcceptedFrom(c, next, baseline, count)

C27_SettlesOnce ==
  /\ promise # "none" ~> Settled
  /\ [](settleCalls <= 1)
  /\ [][Settled => UNCHANGED <<promise, settleCalls, seeks, seeking>>]_vars

\* C27 witness: a run has ended at the end of the video with fewer frames
\* than maxFrames.
C27_Witness ==
  /\ promise = "resolved"
  /\ settleCalls = 1
  /\ seeking = NoSeek
  /\ Len(extractedFrames) < call.maxFrames
  /\ judged = Len(call.videoFile.content)

\* C28: at most maxFrames frames are pushed, hence returned; the n-th
\* onProgress report carries the count n, one more than the report before
\* it, and the total maxFrames, which the count never exceeds.
C28_AtMostMaxFrames ==
  call # NoCall =>
    /\ Len(extractedFrames) <= call.maxFrames
    /\ Len(progress) = Len(extractedFrames)
    /\ \A n \in 1..Len(progress) :
         /\ progress[n].current = n
         /\ progress[n].total = call.maxFrames
         /\ progress[n].current <= progress[n].total

\* C28 witness: a run has ended on maxFrames accepted frames before the end
\* of the video.
C28_Witness ==
  /\ promise = "resolved"
  /\ call.maxFrames = 2
  /\ Len(extractedFrames) = 2
  /\ Len(progress) = 2
  /\ judged = 2
  /\ Len(call.videoFile.content) = 3
  /\ call.framesPerSecond = 2

\* C29: the n-th seek goes to the instant (n - 1) * interval, the instants
\* increase strictly and none is past the duration; at most one seek is in
\* flight, and a seek is issued only when every seek before it has completed
\* and its frame has been judged.
C29_SeeksInOrder ==
  /\ [](\A n \in 1..Len(seeks) :
          /\ seeks[n] = (n - 1) * Interval(call.framesPerSecond)
          /\ seeks[n] <= call.videoFile.duration
          /\ \A m \in 1..(n - 1) : seeks[m] < seeks[n])
  /\ [](seeking # NoSeek =>
          seeking = seeks[Len(seeks)] /\ judged = Len(seeks) - 1)
  /\ [][seeks' # seeks =>
          /\ Len(seeks') = Len(seeks) + 1
          /\ judged' = Len(seeks)
          /\ seeking' = seeks'[Len(seeks')]]_vars

\* C29 witness: the third seek of a run at two frames per second is in
\* flight.
C29_Witness ==
  /\ Len(seeks) = 3
  /\ seeking = 2
  /\ judged = 2
  /\ call.framesPerSecond = 2

\* C30: when the video has a zero duration or cannot be loaded, the promise
\* is rejected and no frame is accepted or returned.
C30_DecodeFailureRejects ==
  (/\ Settled
   /\ call.context
   /\ call.videoFile.duration = 0 \/ call.videoFile.failsAt = 0)
  => /\ promise = "rejected"
     /\ accepted = <<>>
     /\ extractedFrames = <<>>

\* C31: whatever the frame size, the similarity test rejects a candidate
\* exactly when the average of the absolute red, green and blue differences
\* over the pixels actually sampled, the summed difference divided by 3
\* times the number of sampled pixels, is strictly below
\* similarityThreshold.
C31_AverageOverSampledPixels ==
  (seeking # NoSeek /\ lastAcceptedFrameData # NoFrame) =>
    LET current == Pixels(CanvasSize, Drawn(seeking))
        previous == Pixels(CanvasSize, lastAcceptedFrameData)
    IN areFramesSimilar(current, previous, CanvasSize[1], CanvasSize[2],
                        call.options.similarityThreshold)
       <=> SampledDiff(current, previous)
             < call.options.similarityThreshold * 3
                 * Cardinality(SampledPixels(CanvasSize[1] * CanvasSize[2]))

\* ------------------------------------------------- claims, the image service
\* C32: every failure of a transform or edit call reaches the caller in one
\* of the categories invalid credentials, rate or quota exhaustion, safety
\* block, generic; a failure caused by the credentials, by the rate limit or
\* by a safety block is not reported in the generic category, and a safety
\* block is reported with its blocking reason.
C32_FailuresClassified ==
  reply.settled = "rejected" =>
    /\ \/ reply.message \in {InvalidKeyMessage, RateLimitMessage,
                             GenerationBlockedMessage,
                             RegenerateFailedMessage, EditFailedMessage}
       \/ reply.message = EditBlockedMessage(reply.reason)
       \/ includes(reply.message, <<"blocked">>)
    /\ reply.cause = "credentials" => reply.message = InvalidKeyMessage
    /\ reply.cause = "rate" => reply.message = RateLimitMessage
    /\ reply.cause = "safety" =>
         /\ includes(reply.message, <<"blocked">>)
         /\ includes(reply.message, <<reply.reason>>)

KeyIndex(key) == CHOOSE i \in 1..Len(RatioKeys) : RatioKeys[i] = key

\* C33: the output ratio passed to the image service is 1:1 for an absent
\* or zero aspect ratio, and for a positive one it is the one of 16:9, 9:16,
\* 4:3, 3:4, 1:1 at the least absolute distance from it, the earlier in that
\* order when two are equally near.
C33_NearestRatio ==
  (request.operation = "regenerateImage"
     /\ request.awaiting = "generateImages") =>
    LET chosen == request.config.aspectRatio
        captured == request.aspectRatio
    IN IF captured = Null \/ captured[1] = 0 THEN chosen = "1:1"
       ELSE /\ chosen \in Range(RatioKeys)
            /\ \A other \in Range(RatioKeys) :
                 LET near == Distance(ratios(chosen), captured)
                               * ratios(other)[2]
                     far == Distance(ratios(other), captured)
                              * ratios(chosen)[2]
                 IN /\ near <= far
                    /\ near = far => KeyIndex(chosen) <= KeyIndex(other)

\* A capture of 7:8, as far from 3:4 as from 1:1, goes out as 3:4.
C33_Witness ==
  /\ request.operation = "regenerateImage"
  /\ request.awaiting = "generateImages"
  /\ request.aspectRatio = <<7, 8>>
  /\ request.config.aspectRatio = "3:4"

\* The ends of the words of a text that lie within its first room
\* characters, and the start of the text.
WordEnds(text, room) ==
  {0} \cup {p \in 1..Len(text) :
              /\ p <= room
              /\ text[p] # " "
              /\ (p = Len(text) \/ text[p + 1] = " ")}

LastWordEnd(text, room) ==
  CHOOSE p \in WordEnds(text, room) : \A q \in WordEnds(text, room) : q <= p

\* C39: the final prompt of regenerateImage is at most 500 characters long
\* and begins with the prefix of the style; a description that does not fit
\* is cut at the last end of a word that fits.
C39_PromptFitsCutAtWordEnd ==
  (reply.settled = "resolved" /\ reply.operation = "regenerateImage") =>
    LET stylePrefix == getStylePromptPrefix(reply.style)
        room == remainingLength(stylePrefix)
    IN /\ Len(reply.prompt) <= MAX_PROMPT_LENGTH
       /\ SubSeq(reply.prompt, 1, Len(stylePrefix)) = stylePrefix
       /\ Len(reply.description) > room =>
            reply.prompt =
              trim(stylePrefix \o <<" ">>
                     \o SubSeq(reply.description, 1,
                               LastWordEnd(reply.description, room)))

\* ------------------------------------------------------ claims, the batch
\* C34: a batch describe issues its calls for selected frames without a
\* description only, for the first min(n, remaining quota) of the n there
\* are, one call per target in selection order; when every selected frame
\* is described it issues no call, changes neither the counter nor a frame,
\* and ends with the selection cleared and isLoading false.
C34_BatchCallsUndescribedOnly ==
  [][LET c == SelectSeq(selectedFrames,
                        LAMBDA k : originalFrames[k].prompt = 0)
     IN /\ BatchStarts =>
             /\ Len(c) > 0
             /\ Len(batch'.indices) = Min(Len(c), remainingDescribes)
             /\ batch'.indices = SubSeq(c, 1, Len(batch'.indices))
             /\ batch'.i = 1 /\ batch'.calls = 1
        /\ (batch.pc = "delay" /\ batch'.pc = "call") =>
             /\ batch'.indices = batch.indices
             /\ batch'.i = batch.i + 1 /\ batch'.i <= Len(batch.indices)
             /\ batch'.calls = batch.calls + 1
        /\ (batch.pc = "idle" /\ batch'.pc = "notice") =>
             /\ Len(c) = 0
             /\ isLoading'
             /\ UNCHANGED <<describeCount, originalFrames, pending,
                            descriptionsReturned>>
        /\ (batch.pc = "notice" /\ batch'.pc # "notice") =>
             /\ batch' = IdleBatch
             /\ selectedFrames' = <<>>
             /\ activeSelection' = "null"
             /\ ~isLoading'
             /\ UNCHANGED <<describeCount, originalFrames, pending,
                            descriptionsReturned>>]_vars

\* C34 witness: a batch describe was asked for frames that all have their
\* description, and shows its notice.
C34_Witness ==
  /\ batch.pc = "notice"
  /\ Len(selectedFrames) > 0
  /\ \A k \in Range(selectedFrames) : originalFrames[k].prompt # 0

\* C35: while isLoading is true no batch describe, download, delete, manual
\* capture or upload begins, and isLoading is true exactly from the start
\* of a batch describe or of a download to its end, whichever way it ends.
C35_LoadingFramesTheBatch ==
  /\ [][isLoading =>
          ~(\/ handleBatchDescribe
            \/ handleDownloadSelectedOriginal
            \/ handleDeleteSelected
            \/ handleVideoUpload
            \/ \E frameData \in Srcs : handleManualFrameExtract(frameData))]_vars
  /\ [](isLoading <=> batch.pc # "idle")

\* C36: activeSelection is "original" exactly when selectedFrames is not
\* empty, "regenerated" exactly when selectedRegenFrames is not empty, and
\* null exactly when both are empty.
C36_ActiveSelectionAgrees ==
  /\ activeSelection = "original" <=> Len(selectedFrames) > 0
  /\ activeSelection = "regenerated" <=> Len(selectedRegenFrames) > 0
  /\ activeSelection = "null" <=>
       (Len(selectedFrames) = 0 /\ Len(selectedRegenFrames) = 0)

\* C36 witness: every original frame is selected, after a description was
\* made.
C36_Witness ==
  /\ activeSelection = "original"
  /\ Len(selectedFrames) = NumSrcs
  /\ describeCount > 0

\* ---------------------------------------------------- claims, the preview
\* C37: once the user has closed the preview it stays closed until the user
\* opens one: the completion of a describe or translate call does not open
\* a closed preview.
C37_ClosedStaysClosed ==
  [][(~previewImages.open /\ \E n \in 1..Len(pending) : Resumes(n))
       => ~previewImages'.open]_vars

\* C38: an original frame with a translatedPrompt has a prompt, and the
\* translation is the one of that prompt; a description written to a frame,
\* by the single-frame or by the batch describe, clears its translatedPrompt,
\* and a translate call is made for a frame with a prompt only, of that
\* prompt: a frame without one is refused with nothing changed.
C38_TranslationOfCurrentPrompt ==
  /\ [](\A k \in 1..Len(originalFrames) :
          originalFrames[k].translatedPrompt # 0 =>
            /\ originalFrames[k].prompt # 0
            /\ originalFrames[k].translatedPrompt
                 = Translation(originalFrames[k].prompt))
  /\ [][/\ \A n \in 1..Len(pending) :
             (Resumes(n) /\ pending[n].kind = "describe"
                /\ descriptionsReturned' # descriptionsReturned) =>
               \A k \in 1..Len(originalFrames') :
                 originalFrames'[k].src = pending[n].src =>
                   /\ originalFrames'[k].prompt = Description(pending[n].src)
                   /\ originalFrames'[k].translatedPrompt = 0
        /\ BatchCallSucceeds =>
             LET frame == originalFrames'[batch.indices[batch.i]]
             IN frame.prompt # 0 /\ frame.translatedPrompt = 0
        /\ (Len(pending') > Len(pending)
              /\ pending'[Len(pending')].kind = "translate") =>
             \E k \in 1..Len(originalFrames) :
               /\ originalFrames[k].src = pending'[Len(pending')].src
               /\ originalFrames[k].prompt # 0
               /\ pending'[Len(pending')].text = originalFrames[k].prompt
        /\ alertMsg' = "translate_no_prompt" =>
             UNCHANGED <<originalFrames, pending, previewImages>>]_vars

\* C38 witness: a translation is in the store, and translate has just been
\* refused for a frame whose prompt the store does not hold.
C38_Witness ==
  /\ alertMsg = "translate_no_prompt"
  /\ \E k \in 1..Len(originalFrames) : originalFrames[k].translatedPrompt # 0

====
